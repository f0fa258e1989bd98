--------------------------- MODULE LlmStepProofs ---------------------------
(***************************************************************************)
(* What the row loop of an LLM step promises for every number of rows,     *)
(* attempts and calls in flight, and for every size of a batch.            *)
(***************************************************************************)
EXTENDS LlmStep, FiniteSetTheorems, WellFoundedInduction, TLAPS

(***************************************************************************)
(* Numbers and batches: the least and the greatest of a set, and how many  *)
(* rows the lowest of a set can be.                                        *)
(***************************************************************************)

LEMMA LeastExists ==
  ASSUME NEW S \in SUBSET Nat, S # {}
  PROVE  \E n \in S : \A m \in S : n =< m
<1>1. PICK n \in S : \A m \in S : <<m, n>> \notin OpToRel(<, Nat)
  BY NatLessThanWellFounded, WFMin
<1>2. \A m \in S : ~(m < n)
  BY <1>1 DEF OpToRel
<1> QED
  BY <1>2

LEMMA RowsFinite ==
  /\ Rows \in SUBSET Nat /\ IsFiniteSet(Rows)
  /\ \A S \in SUBSET Rows : IsFiniteSet(S) /\ Cardinality(S) \in Nat
<1>1. IsFiniteSet(Rows)
  BY SizeAssumption, FS_Interval DEF Rows
<1>2. Rows \in SUBSET Nat
  BY SizeAssumption DEF Rows
<1>3. ASSUME NEW S \in SUBSET Rows PROVE IsFiniteSet(S) /\ Cardinality(S) \in Nat
  <2>1. IsFiniteSet(S)
    BY <1>1, FS_Subset
  <2> QED
    BY <2>1, FS_CardinalityType
<1> QED
  BY <1>1, <1>2, <1>3

LEMMA LeastRow ==
  ASSUME NEW S \in SUBSET Rows, S # {}
  PROVE  Min(S) \in S /\ \A r \in S : Min(S) =< r
<1>1. \E n \in S : \A m \in S : n =< m
  BY RowsFinite, LeastExists
<1> QED
  BY <1>1 DEF Min

LEMMA GreatestRow ==
  ASSUME NEW S \in SUBSET Rows, S # {}
  PROVE  Max(S) \in S /\ \A r \in S : r =< Max(S)
<1> DEFINE above == {NumRows - r : r \in S}
<1>1. \A r \in S : r \in Nat /\ r =< NumRows
  BY SizeAssumption DEF Rows
<1>2. above \in SUBSET Nat /\ above # {}
  BY <1>1, SizeAssumption
<1>3. PICK n \in above : \A m \in above : n =< m
  BY <1>2, LeastExists
<1>4. PICK x \in S : n = NumRows - x
  BY <1>3
<1>5. ASSUME NEW r \in S PROVE r =< x
  <2>1. NumRows - x =< NumRows - r
    BY <1>3, <1>4
  <2> QED
    BY <1>1, <2>1, SizeAssumption
<1>6. \E y \in S : \A r \in S : y >= r
  BY <1>1, <1>5
<1> QED
  BY <1>1, <1>6 DEF Max

\* The rows of T that come early: fewer than a batch of T is before them.
Early(T) == {r \in T : Cardinality({s \in T : s < r}) < CheckpointEvery}

LEMMA EarlyIsABatch ==
  ASSUME NEW T \in SUBSET Rows
  PROVE  Early(T) \in SUBSET Rows /\ Cardinality(Early(T)) =< CheckpointEvery
<1> DEFINE V == Early(T)
<1>1. V \in SUBSET Rows
  BY DEF Early
<1>2. CASE V = {}
  BY <1>1, <1>2, FS_EmptySet, SizeAssumption
<1>3. CASE V # {}
  <2> DEFINE x == Max(V)
             before == {s \in T : s < x}
  <2>1. x \in V /\ \A r \in V : r =< x
    BY <1>1, <1>3, GreatestRow
  <2>2. before \in SUBSET Rows /\ V \ {x} \subseteq before
    <3>1. before \in SUBSET Rows
      OBVIOUS
    <3>2. ASSUME NEW r \in V, r # x PROVE r \in before
      <4>1. r \in T /\ r \in Nat /\ x \in Nat /\ r =< x
        BY <1>1, <2>1, RowsFinite DEF Early
      <4> QED
        BY <3>2, <4>1
    <3> HIDE DEF before
    <3> QED
      BY <3>1, <3>2
  <2>3. Cardinality(V \ {x}) =< Cardinality(before)
    BY <2>2, RowsFinite, FS_Subset
  <2>4. Cardinality(V \ {x}) = Cardinality(V) - 1
    BY <1>1, <2>1, RowsFinite, FS_RemoveElement
  <2>5. Cardinality(before) < CheckpointEvery
    BY <2>1 DEF Early
  <2>6. Cardinality(V) \in Nat /\ Cardinality(before) \in Nat /\ CheckpointEvery \in Nat
    BY <1>1, <2>2, RowsFinite, SizeAssumption
  <2> HIDE DEF x, before, V
  <2> QED
    BY <1>1, <2>3, <2>4, <2>5, <2>6 DEF V
<1> QED
  BY <1>2, <1>3

\* A row that is early in a set is early in every part of the set that it is in.
LEMMA EarlyInPart ==
  ASSUME NEW T \in SUBSET Rows, NEW S \in SUBSET T
  PROVE  Early(T) \cap S \subseteq Early(S)
<1> SUFFICES ASSUME NEW r \in S, r \in Early(T) PROVE r \in Early(S)
  OBVIOUS
<1> DEFINE inT == {s \in T : s < r}
           inS == {s \in S : s < r}
<1>1. inS \subseteq inT /\ inT \in SUBSET Rows /\ inS \in SUBSET Rows
  OBVIOUS
<1>2. Cardinality(inS) =< Cardinality(inT)
  BY <1>1, RowsFinite, FS_Subset
<1>3. Cardinality(inS) \in Nat /\ Cardinality(inT) \in Nat
  BY <1>1, RowsFinite
<1>4. Cardinality(inT) < CheckpointEvery
  BY DEF Early
<1> HIDE DEF inT, inS
<1>5. Cardinality(inS) < CheckpointEvery
  BY <1>2, <1>3, <1>4, SizeAssumption
<1> QED
  BY <1>5 DEF inS, Early

(***************************************************************************)
(* Sums.  The recursion that SumFunction is built from has a solution, and *)
(* a function that is larger by one on few of its arguments only has a sum *)
(* that is larger by few only.  Each argument looks at a smallest set that *)
(* would be an exception.                                                  *)
(***************************************************************************)

Pick(s) == CHOOSE x \in s : TRUE
Summed(w, f, s) == IF s = {} THEN 0 ELSE w[Pick(s)] + f[s \ {Pick(s)}]
IsSum(w, f) == f = [s \in SUBSET Rows |-> Summed(w, f, s)]

LEMMA SumIsChosen ==
  ASSUME NEW w, DOMAIN w = Rows
  PROVE  SumFunction(w) = (CHOOSE f : IsSum(w, f))[Rows]
BY Zenon DEF SumFunction, SumFunctionOnSet, FoldFunctionOnSet, MapThenFoldSet,
             IsSum, Summed, Pick

\* Without the row that is picked a set is smaller by one.
LEMMA PickSmaller ==
  ASSUME NEW s \in SUBSET Rows, s # {}
  PROVE  /\ Pick(s) \in s /\ s \ {Pick(s)} \in SUBSET Rows
         /\ Cardinality(s) \in Nat /\ Cardinality(s \ {Pick(s)}) \in Nat
         /\ Cardinality(s) = Cardinality(s \ {Pick(s)}) + 1
<1>1. Pick(s) \in s
  BY DEF Pick
<1>2. IsFiniteSet(s) /\ s \ {Pick(s)} \in SUBSET Rows
  BY RowsFinite
<1>3. Cardinality(s \ {Pick(s)}) = Cardinality(s) - 1
  BY <1>1, <1>2, FS_RemoveElement
<1>4. Cardinality(s) \in Nat /\ Cardinality(s \ {Pick(s)}) \in Nat
  BY <1>2, RowsFinite
<1> QED
  BY <1>1, <1>2, <1>3, <1>4

\* A solution for all sets of n rows or less.
SumUpTo(w, n) ==
  \E f \in [SUBSET Rows -> Nat] :
    \A s \in SUBSET Rows : Cardinality(s) =< n => f[s] = Summed(w, f, s)

LEMMA SumNone ==
  ASSUME NEW w \in [Rows -> Nat]
  PROVE  SumUpTo(w, 0)
<1> DEFINE f == [s \in SUBSET Rows |-> 0]
<1>1. f \in [SUBSET Rows -> Nat]
  OBVIOUS
<1>2. ASSUME NEW s \in SUBSET Rows, Cardinality(s) =< 0 PROVE f[s] = Summed(w, f, s)
  <2>1. s = {}
    BY <1>2, RowsFinite, FS_EmptySet
  <2> QED
    BY <2>1 DEF Summed
<1> QED
  BY <1>1, <1>2 DEF SumUpTo

LEMMA SumOneMore ==
  ASSUME NEW w \in [Rows -> Nat], NEW n \in Nat, SumUpTo(w, n)
  PROVE  SumUpTo(w, n + 1)
<1>1. PICK f \in [SUBSET Rows -> Nat] :
        \A s \in SUBSET Rows : Cardinality(s) =< n => f[s] = Summed(w, f, s)
  BY DEF SumUpTo
<1> DEFINE g == [s \in SUBSET Rows |-> Summed(w, f, s)]
<1>2. g \in [SUBSET Rows -> Nat]
  <2>1. ASSUME NEW s \in SUBSET Rows PROVE Summed(w, f, s) \in Nat
    <3>1. CASE s = {}
      BY <3>1 DEF Summed
    <3>2. CASE s # {}
      <4>1. w[Pick(s)] \in Nat /\ f[s \ {Pick(s)}] \in Nat
        BY <3>2, PickSmaller
      <4> QED
        BY <3>2, <4>1 DEF Summed
    <3> QED
      BY <3>1, <3>2
  <2> QED
    BY <2>1
<1>3. ASSUME NEW s \in SUBSET Rows, Cardinality(s) =< n + 1 PROVE g[s] = Summed(w, g, s)
  <2>1. CASE s = {}
    BY <2>1 DEF Summed
  <2>2. CASE s # {}
    <3> DEFINE t == s \ {Pick(s)}
    <3>1. t \in SUBSET Rows /\ Cardinality(t) =< n
      BY <1>3, <2>2, PickSmaller
    <3>2. g[t] = f[t]
      BY <1>1, <3>1
    <3>3. g[s] = w[Pick(s)] + f[t]
      BY <2>2 DEF Summed
    <3>4. Summed(w, g, s) = w[Pick(s)] + g[t]
      BY <2>2 DEF Summed
    <3> QED
      BY <3>2, <3>3, <3>4
  <2> QED
    BY <2>1, <2>2
<1> HIDE DEF g
<1> QED
  BY <1>2, <1>3 DEF SumUpTo

LEMMA SumExists ==
  ASSUME NEW w \in [Rows -> Nat]
  PROVE  \E f : IsSum(w, f)
<1>1. ASSUME NEW m \in Nat, ~SumUpTo(w, m) PROVE FALSE
  <2> DEFINE Bad == {n \in Nat : ~SumUpTo(w, n)}
  <2>1. PICK n \in Bad : \A m2 \in Bad : n =< m2
    <3>1. Bad \in SUBSET Nat /\ Bad # {}
      BY <1>1
    <3> QED
      BY <3>1, LeastExists
  <2>2. n # 0
    BY <2>1, SumNone
  <2>3. n - 1 \in Nat /\ (n - 1) + 1 = n /\ ~(n =< n - 1)
    BY <2>1, <2>2
  <2>4. SumUpTo(w, n - 1)
    BY <2>1, <2>3
  <2> QED
    BY <2>1, <2>3, <2>4, SumOneMore
<1>2. PICK f \in [SUBSET Rows -> Nat] :
        \A s \in SUBSET Rows : Cardinality(s) =< Cardinality(Rows) => f[s] = Summed(w, f, s)
  BY <1>1, RowsFinite DEF SumUpTo
<1>3. \A s \in SUBSET Rows : Cardinality(s) =< Cardinality(Rows)
  BY RowsFinite, FS_Subset
<1>4. f = [s \in SUBSET Rows |-> Summed(w, f, s)]
  BY <1>2, <1>3
<1> QED
  BY <1>4 DEF IsSum

Larger(w, v, S) == \A r \in Rows : v[r] =< w[r] + IF r \in S THEN 1 ELSE 0

\* A sum grows by no more than the number of arguments that grow, by one each.
LEMMA SumGrows ==
  ASSUME NEW w \in [Rows -> Nat], NEW v \in [Rows -> Nat], NEW S \in SUBSET Rows,
         Larger(w, v, S)
  PROVE  /\ SumFunction(w) \in Nat /\ SumFunction(v) \in Nat
         /\ SumFunction(v) =< SumFunction(w) + Cardinality(S)
<1> DEFINE f == CHOOSE h : IsSum(w, h)
           g == CHOOSE h : IsSum(v, h)
<1>1. IsSum(w, f) /\ IsSum(v, g)
  BY SumExists
<1>2. SumFunction(w) = f[Rows] /\ SumFunction(v) = g[Rows]
  BY SumIsChosen
<1> HIDE DEF f, g
<1> DEFINE Right(s) == f[s] \in Nat /\ g[s] \in Nat /\ g[s] =< f[s] + Cardinality(s \cap S)
           Bad == {n \in Nat : \E s \in SUBSET Rows : ~Right(s) /\ Cardinality(s) = n}
<1>3. SUFFICES ASSUME ~Right(Rows) PROVE FALSE
  <2>1. Rows \cap S = S
    OBVIOUS
  <2> QED
    BY <1>2, <2>1
<1> HIDE DEF Right
<1>4. PICK n \in Bad : \A m \in Bad : n =< m
  <2>1. Bad \in SUBSET Nat /\ Bad # {}
    BY <1>3, RowsFinite
  <2> QED
    BY <2>1, LeastExists
<1>5. PICK s \in SUBSET Rows : ~Right(s) /\ Cardinality(s) = n
  BY <1>4
<1>6. f[s] = Summed(w, f, s) /\ g[s] = Summed(v, g, s)
  BY <1>1 DEF IsSum
<1>7. s # {}
  <2> SUFFICES ASSUME s = {} PROVE FALSE
    OBVIOUS
  <2>1. f[s] = 0 /\ g[s] = 0 /\ s \cap S = {}
    BY <1>6 DEF Summed
  <2> QED
    BY <1>5, <2>1, FS_EmptySet DEF Right
<1> DEFINE x == Pick(s)
           t == s \ {x}
<1>8. /\ x \in s /\ t \in SUBSET Rows
      /\ Cardinality(t) \in Nat /\ Cardinality(s) = Cardinality(t) + 1
  BY <1>7, PickSmaller
<1>9. Right(t)
  <2>1. ~(n =< Cardinality(t))
    BY <1>5, <1>8
  <2>2. Cardinality(t) \notin Bad
    BY <1>4, <2>1
  <2> QED
    BY <1>8, <2>2
<1>10. f[s] = w[x] + f[t] /\ g[s] = v[x] + g[t]
  BY <1>6, <1>7 DEF Summed
<1> HIDE DEF x
<1>11. v[x] =< w[x] + (IF x \in S THEN 1 ELSE 0) /\ w[x] \in Nat /\ v[x] \in Nat
  BY <1>8 DEF Larger
<1>12. Cardinality(s \cap S) = Cardinality(t \cap S) + IF x \in S THEN 1 ELSE 0
  <2>1. CASE x \in S
    <3>1. t \cap S = (s \cap S) \ {x} /\ x \in s \cap S /\ s \cap S \in SUBSET Rows
      BY <1>8, <2>1
    <3>2. Cardinality(t \cap S) = Cardinality(s \cap S) - 1
      <4>1. IsFiniteSet(s \cap S)
        BY <3>1, RowsFinite
      <4>2. Cardinality((s \cap S) \ {x}) = Cardinality(s \cap S) - 1
        BY <3>1, <4>1, FS_RemoveElement
      <4> QED
        BY <3>1, <4>2
    <3>3. Cardinality(s \cap S) \in Nat
      BY <3>1, RowsFinite
    <3> QED
      BY <2>1, <3>2, <3>3
  <2>2. CASE x \notin S
    <3>1. t \cap S = s \cap S /\ s \cap S \in SUBSET Rows
      BY <1>8, <2>2
    <3> QED
      BY <2>2, <3>1, RowsFinite
  <2> QED
    BY <2>1, <2>2
<1>13. t \cap S \in SUBSET Rows /\ Cardinality(t \cap S) \in Nat
  BY <1>8, RowsFinite
<1> DEFINE few == Cardinality(t \cap S)
           one == IF x \in S THEN 1 ELSE 0
<1>14. f[t] \in Nat /\ g[t] \in Nat /\ g[t] =< f[t] + few
  BY <1>9 DEF Right
<1>15. few \in Nat /\ one \in Nat /\ Cardinality(s \cap S) = few + one /\ v[x] =< w[x] + one
  BY <1>11, <1>12, <1>13
<1> HIDE DEF few, one, t
<1>16. f[s] \in Nat /\ g[s] \in Nat /\ g[s] =< f[s] + Cardinality(s \cap S)
  BY <1>10, <1>11, <1>14, <1>15
<1> QED
  BY <1>5, <1>16 DEF Right

(***************************************************************************)
(* Types, and what the coroutines of a batch are at each place.            *)
(***************************************************************************)

CallsOK ==
  /\ pc \in {"calls", "aborted"} => DOMAIN call = Early(Pending) /\ DOMAIN call # {}
  /\ pc = "save" => DOMAIN call # {} /\ DOMAIN call \subseteq DOMAIN done /\ AllAnswered
  /\ pc \notin {"calls", "aborted", "save"} => DOMAIN call = {}

TypeInv == TypeOK /\ CallsOK

FilesOK == DOMAIN files \subseteq Rows /\ \A f \in DOMAIN files : files[f] \in Partial(Results)

LEMMA PartialIs ==
  ASSUME NEW T, NEW g
  PROVE  g \in Partial(T) <=> /\ DOMAIN g \in SUBSET Rows
                              /\ g = [r \in DOMAIN g |-> g[r]]
                              /\ \A r \in DOMAIN g : g[r] \in T
<1>1. ASSUME g \in Partial(T)
      PROVE  /\ DOMAIN g \in SUBSET Rows /\ g = [r \in DOMAIN g |-> g[r]]
             /\ \A r \in DOMAIN g : g[r] \in T
  <2>1. PICK S \in SUBSET Rows : g \in [S -> T]
    BY <1>1 DEF Partial
  <2> QED
    BY <2>1
<1>2. ASSUME DOMAIN g \in SUBSET Rows, g = [r \in DOMAIN g |-> g[r]],
             \A r \in DOMAIN g : g[r] \in T
      PROVE  g \in Partial(T)
  <2>1. g \in [DOMAIN g -> T]
    BY <1>2
  <2> QED
    BY <1>2, <2>1 DEF Partial
<1> QED
  BY <1>1, <1>2

LEMMA NoRows == ASSUME NEW T PROVE <<>> \in Partial(T) /\ DOMAIN <<>> = {}
<1>1. DOMAIN <<>> = {} /\ <<>> = [r \in DOMAIN <<>> |-> <<>>[r]]
  OBVIOUS
<1> QED
  BY <1>1, PartialIs

LEMMA EarlyExists ==
  ASSUME NEW T \in SUBSET Rows, T # {}
  PROVE  Early(T) # {}
<1> DEFINE x == Min(T)
           before == {s \in T : s < x}
<1>1. x \in T /\ \A r \in T : x =< r
  BY LeastRow
<1>2. before = {}
  <2> SUFFICES ASSUME NEW s \in T, s < x PROVE FALSE
    OBVIOUS
  <2>1. s \in Nat /\ x \in Nat /\ x =< s
    BY <1>1, RowsFinite
  <2> QED
    BY <2>1
<1>3. Cardinality(before) < CheckpointEvery
  BY <1>2, FS_EmptySet, SizeAssumption
<1> QED
  BY <1>1, <1>3 DEF Early

LEMMA NextIsEarly == NextBatch = Early(Pending)
BY DEF NextBatch, Early

LEMMA FiledRows ==
  ASSUME FilesOK
  PROVE  /\ InFiles \in SUBSET Rows
         /\ \A f \in DOMAIN files : DOMAIN files[f] \in SUBSET Rows
<1>1. \A f \in DOMAIN files : DOMAIN files[f] \in SUBSET Rows
  BY PartialIs DEF FilesOK
<1> QED
  BY <1>1 DEF InFiles

\* Each row of the merged files is a row of one of them.
LEMMA MergedIs ==
  ASSUME FilesOK, NEW read \in SUBSET DOMAIN files
  PROVE  /\ Merged(read) \in Partial(Results)
         /\ DOMAIN Merged(read) = UNION {DOMAIN files[f] : f \in read}
         /\ \A r \in DOMAIN Merged(read) :
              \E f \in read : r \in DOMAIN files[f] /\ Merged(read)[r] = files[f][r]
<1> DEFINE g == Merged(read)
<1>1. g = [r \in DOMAIN g |-> g[r]] /\ DOMAIN g = UNION {DOMAIN files[f] : f \in read}
  BY DEF Merged
<1>2. ASSUME NEW r \in DOMAIN g
      PROVE  \E f \in read : r \in DOMAIN files[f] /\ g[r] = files[f][r]
  <2> DEFINE holding == {f \in read : r \in DOMAIN files[f]}
             last == Max(holding)
  <2>1. holding \in SUBSET Rows /\ holding # {}
    BY <1>1 DEF FilesOK
  <2>2. last \in holding
    BY <2>1, GreatestRow
  <2>3. g[r] = files[last][r]
    BY <1>1, <1>2 DEF Merged
  <2> HIDE DEF last
  <2> QED
    BY <2>2, <2>3
<1>3. DOMAIN g \in SUBSET Rows
  BY <1>1, FiledRows
<1>4. \A r \in DOMAIN g : g[r] \in Results
  BY <1>2, PartialIs DEF FilesOK
<1>5. g \in Partial(Results)
  <2> HIDE DEF g
  <2> QED BY <1>1, <1>3, <1>4, PartialIs
<1> QED
  BY <1>1, <1>2, <1>5

LEMMA WithFileIs ==
  ASSUME FilesOK, NEW m \in Rows, NEW g \in Partial(Results)
  PROVE  /\ DOMAIN WithFile(m, g) = DOMAIN files \cup {m}
         /\ WithFile(m, g)[m] = g
         /\ \A f \in DOMAIN files : f # m => WithFile(m, g)[f] = files[f]
         /\ \A f \in DOMAIN WithFile(m, g) : WithFile(m, g)[f] \in Partial(Results)
BY DEF WithFile, FilesOK

LEMMA WithFileOK ==
  ASSUME FilesOK, NEW m \in Rows, NEW g \in Partial(Results), files' = WithFile(m, g)
  PROVE  /\ FilesOK'
         /\ DOMAIN files' = DOMAIN files \cup {m} /\ files'[m] = g
         /\ \A f \in DOMAIN files : f # m => files'[f] = files[f]
<1>1. /\ DOMAIN files' = DOMAIN files \cup {m} /\ files'[m] = g
      /\ \A f \in DOMAIN files : f # m => files'[f] = files[f]
      /\ \A f \in DOMAIN files' : files'[f] \in Partial(Results)
  BY WithFileIs
<1> QED
  BY <1>1 DEF FilesOK

LEMMA TypeStart == Init => TypeInv
<1> SUFFICES ASSUME Init PROVE TypeInv
  OBVIOUS
<1>1. done \in Partial(Results) /\ call \in Partial(Results \cup {"waiting", "posted", "raised"})
  BY NoRows DEF Init
<1>2. DOMAIN files = {} /\ DOMAIN call = {}
  BY NoRows DEF Init
<1>3. attempt \in 1..LastAttempt
  BY SizeAssumption DEF Init
<1>4. paid \in [Rows -> Nat] /\ heard \subseteq Rows \X Results /\ misread \in Nat
  BY DEF Init
<1>5. TypeOK
  BY <1>1, <1>2, <1>3, <1>4 DEF Init, TypeOK
<1> QED
  BY <1>2, <1>5 DEF Init, TypeInv, CallsOK

LEMMA TypeLoad == TypeInv /\ LoadCheckpoint => TypeInv'
<1> SUFFICES ASSUME TypeInv, LoadCheckpoint PROVE TypeInv'
  OBVIOUS
<1>1. PICK lost \in SUBSET DOMAIN files :
        /\ done' = Merged(DOMAIN files \ lost)
        /\ misread' = misread + Cardinality(InFiles \ DOMAIN done')
  BY DEF LoadCheckpoint
<1>2. FilesOK
  BY DEF TypeInv, TypeOK, FilesOK
<1>3. done' \in Partial(Results)
  BY <1>1, <1>2, MergedIs
<1>4. misread' \in Nat
  <2>1. InFiles \ DOMAIN done' \in SUBSET Rows
    BY <1>2, FiledRows
  <2> HIDE DEF InFiles
  <2>2. Cardinality(InFiles \ DOMAIN done') \in Nat
    BY <2>1, RowsFinite
  <2> QED
    BY <1>1, <2>2 DEF TypeInv, TypeOK
<1> QED
  BY <1>3, <1>4 DEF TypeInv, TypeOK, CallsOK, LoadCheckpoint

LEMMA TypeBatch == TypeInv /\ StartBatch => TypeInv'
<1> SUFFICES ASSUME TypeInv, StartBatch PROVE TypeInv'
  OBVIOUS
<1>1. CASE cancel
  BY <1>1 DEF TypeInv, TypeOK, CallsOK, StartBatch, ghostVars
<1>2. CASE ~cancel
  <2>1. pc' = "calls" /\ call' = [r \in NextBatch |-> "waiting"]
    BY <1>2 DEF StartBatch
  <2>2. Pending \in SUBSET Rows /\ Pending # {} /\ Pending' = Pending
    BY DEF StartBatch, Pending, TypeInv, TypeOK
  <2>3. DOMAIN call' = Early(Pending) /\ Early(Pending) # {} /\ Early(Pending) \in SUBSET Rows
    BY <2>1, <2>2, NextIsEarly, EarlyExists, EarlyIsABatch
  <2>4. call' \in Partial(Results \cup {"waiting", "posted", "raised"})
    <3>1. call' = [r \in DOMAIN call' |-> call'[r]] /\ \A r \in DOMAIN call' : call'[r] = "waiting"
      BY <2>1
    <3> QED
      BY <2>3, <3>1, PartialIs
  <2>5. CallsOK'
    BY <2>1, <2>2, <2>3 DEF CallsOK
  <2> QED
    BY <2>1, <2>4, <2>5 DEF TypeInv, TypeOK, StartBatch, ghostVars
<1> QED
  BY <1>1, <1>2

States == Results \cup {"waiting", "posted", "raised"}

\* One coroutine goes on and the others stay as they are.
LEMMA OneCall ==
  ASSUME TypeInv, NEW r \in DOMAIN call, NEW s \in States, call' = [call EXCEPT ![r] = s]
  PROVE  /\ call' \in Partial(States) /\ DOMAIN call' = DOMAIN call /\ r \in Rows
         /\ call'[r] = s /\ \A q \in DOMAIN call : q # r => call'[q] = call[q]
<1>1. call \in Partial(States)
  BY DEF TypeInv, TypeOK, States
<1>2. /\ DOMAIN call \in SUBSET Rows /\ call = [q \in DOMAIN call |-> call[q]]
      /\ \A q \in DOMAIN call : call[q] \in States
  BY <1>1, PartialIs
<1>3. DOMAIN call' = DOMAIN call /\ call' = [q \in DOMAIN call' |-> call'[q]]
  BY <1>2
<1>4. \A q \in DOMAIN call' : call'[q] = IF q = r THEN s ELSE call[q]
  BY <1>2
<1>5. \A q \in DOMAIN call' : call'[q] \in States
  BY <1>2, <1>3, <1>4
<1>6. call' \in Partial(States)
  BY <1>2, <1>3, <1>5, PartialIs
<1> QED
  BY <1>2, <1>3, <1>4, <1>6

LEMMA TypeBegin == ASSUME NEW r \in Rows PROVE TypeInv /\ BeginCall(r) => TypeInv'
<1> SUFFICES ASSUME TypeInv, BeginCall(r) PROVE TypeInv'
  OBVIOUS
<1>1. r \in DOMAIN call /\ call[r] = "waiting" /\ call' = [call EXCEPT ![r] = "posted"]
  BY DEF BeginCall, InState
<1>2. call' \in Partial(States) /\ DOMAIN call' = DOMAIN call
  BY <1>1, OneCall DEF States
<1>3. pc # "save"
  BY <1>1 DEF TypeInv, CallsOK, AllAnswered, Results
<1>4. Pending' = Pending
  BY DEF BeginCall, Pending
<1>5. CallsOK'
  BY <1>2, <1>3, <1>4 DEF TypeInv, CallsOK, BeginCall
<1> QED
  BY <1>2, <1>5 DEF TypeInv, TypeOK, BeginCall, States, ghostVars

\* What the end of a call does to the row.
Billed(r) ==
  /\ paid' \in [Rows -> Nat]
  /\ paid'[r] \in {paid[r], paid[r] + 1}
  /\ \A q \in Rows : q # r => paid'[q] = paid[q]

LEMMA EndIs ==
  ASSUME TypeInv, NEW r \in Rows, NEW e \in Endings, EndCall(r, e)
  PROVE  /\ r \in DOMAIN call /\ call[r] = "posted" /\ pc \in {"calls", "aborted"}
         /\ pc' \in {pc, "aborted"}
         /\ call' \in Partial(States) /\ DOMAIN call' = DOMAIN call
         /\ call'[r] \in Results \cup {"raised"}
         /\ call'[r] \in Results => heard' = heard \cup {<<r, call'[r]>>}
         /\ \A q \in DOMAIN call : q # r => call'[q] = call[q]
         /\ heard \subseteq heard' /\ heard' \subseteq Rows \X Results
         /\ Billed(r)
<1> DEFINE result == IF e = "answered" THEN "output" ELSE "error"
           s == IF Raises(e) THEN "raised" ELSE result
<1>1. /\ r \in DOMAIN call /\ call[r] = "posted"
      /\ call' = [call EXCEPT ![r] = s]
      /\ heard' = IF Raises(e) THEN heard ELSE heard \cup {<<r, result>>}
      /\ pc' = IF Raises(e) /\ pc = "calls" THEN "aborted" ELSE pc
  BY Zenon DEF EndCall, InState
<1>2. result \in Results /\ "raised" \notin Results
  BY DEF Results
<1> HIDE DEF result
<1>3. s \in Results \cup {"raised"} /\ s \in States
  BY <1>2 DEF States
<1>4. /\ call' \in Partial(States) /\ DOMAIN call' = DOMAIN call /\ call'[r] = s
      /\ \A q \in DOMAIN call : q # r => call'[q] = call[q]
  BY <1>1, <1>3, OneCall
<1>5. pc \in {"calls", "aborted"}
  <2>1. call[r] \notin Results
    BY <1>1 DEF Results
  <2> QED
    BY <1>1, <2>1 DEF TypeInv, CallsOK, AllAnswered
<1>6. call'[r] \in Results => heard' = heard \cup {<<r, call'[r]>>}
  BY <1>1, <1>2, <1>4
<1>7. heard \subseteq heard' /\ heard' \subseteq Rows \X Results
  BY <1>1, <1>2 DEF TypeInv, TypeOK
<1>8. Billed(r)
  <2>1. PICK billed : Bill(r, IF billed THEN 1 ELSE 0)
    BY DEF EndCall
  <2> DEFINE n == IF billed THEN 1 ELSE 0
  <2>2. n \in {0, 1} /\ paid' = [paid EXCEPT ![r] = @ + n]
    BY <2>1 DEF Bill
  <2> HIDE DEF n
  <2> QED
    BY <2>2 DEF TypeInv, TypeOK, Billed
<1> QED
  BY <1>1, <1>3, <1>4, <1>5, <1>6, <1>7, <1>8

LEMMA TypeEnd ==
  ASSUME NEW r \in Rows, NEW e \in Endings
  PROVE  TypeInv /\ EndCall(r, e) => TypeInv'
<1> SUFFICES ASSUME TypeInv, EndCall(r, e) PROVE TypeInv'
  OBVIOUS
<1>1. /\ pc \in {"calls", "aborted"} /\ pc' \in {"calls", "aborted"}
      /\ call' \in Partial(States) /\ DOMAIN call' = DOMAIN call
      /\ heard' \subseteq Rows \X Results /\ paid' \in [Rows -> Nat]
  BY EndIs DEF Billed
<1>2. UNCHANGED <<attempt, done, cancel, files, version, misread>>
  BY DEF EndCall
<1>3. CallsOK'
  <2>1. Pending' = Pending
    BY <1>2 DEF Pending
  <2> QED
    BY <1>1, <2>1 DEF TypeInv, CallsOK
<1> QED
  BY <1>1, <1>2, <1>3 DEF TypeInv, TypeOK, States

LEMMA TypeDone == TypeInv /\ BatchDone => TypeInv'
<1> SUFFICES ASSUME TypeInv, BatchDone PROVE TypeInv'
  OBVIOUS
<1>1. /\ DOMAIN done \in SUBSET Rows /\ \A r \in DOMAIN done : done[r] \in Results
      /\ DOMAIN call \in SUBSET Rows /\ DOMAIN call # {} /\ AllAnswered
  BY PartialIs DEF TypeInv, TypeOK, CallsOK, BatchDone
<1>2. done' \in Partial(Results) /\ DOMAIN done' = DOMAIN done \cup DOMAIN call
  <2> DEFINE g == [r \in DOMAIN done \cup DOMAIN call |->
                     IF r \in DOMAIN call THEN call[r] ELSE done[r]]
  <2>1. DOMAIN g \in SUBSET Rows /\ \A r \in DOMAIN g : g[r] \in Results
    BY <1>1 DEF AllAnswered
  <2>2. g = [r \in DOMAIN g |-> g[r]]
    OBVIOUS
  <2>3. done' = g /\ DOMAIN g = DOMAIN done \cup DOMAIN call
    BY DEF BatchDone
  <2> HIDE DEF g
  <2> QED
    BY <2>1, <2>2, <2>3, PartialIs
<1>3. CallsOK'
  BY <1>1, <1>2 DEF BatchDone, CallsOK, AllAnswered
<1> QED
  BY <1>2, <1>3 DEF TypeInv, TypeOK, BatchDone, ghostVars

\* A batch at its end: its first row and what a file of it holds.
LEMMA BatchIs ==
  ASSUME TypeInv, pc = "save"
  PROVE  /\ FilesOK /\ DOMAIN call \in SUBSET Rows
         /\ Min(DOMAIN call) \in DOMAIN call
         /\ \A r \in DOMAIN call : Min(DOMAIN call) =< r
         /\ \A S \in SUBSET DOMAIN call :
              [r \in S |-> call[r]] \in Partial(Results) /\ DOMAIN [r \in S |-> call[r]] = S
         /\ call = [r \in DOMAIN call |-> call[r]]
<1>1. FilesOK
  BY DEF TypeInv, TypeOK, FilesOK
<1>2. DOMAIN call \in SUBSET Rows /\ call = [r \in DOMAIN call |-> call[r]]
  BY PartialIs DEF TypeInv, TypeOK
<1>3. DOMAIN call # {} /\ \A r \in DOMAIN call : call[r] \in Results
  BY DEF TypeInv, CallsOK, AllAnswered
<1>4. ASSUME NEW S \in SUBSET DOMAIN call
      PROVE  [r \in S |-> call[r]] \in Partial(Results) /\ DOMAIN [r \in S |-> call[r]] = S
  <2>1. [r \in S |-> call[r]] \in [S -> Results]
    BY <1>3
  <2> QED
    BY <1>2, <2>1 DEF Partial
<1> QED
  BY <1>1, <1>2, <1>3, <1>4, LeastRow

LEMMA TypeSave == TypeInv /\ SaveCheckpoint => TypeInv'
<1> SUFFICES ASSUME TypeInv, SaveCheckpoint PROVE TypeInv'
  OBVIOUS
<1>1. /\ FilesOK /\ Min(DOMAIN call) \in Rows /\ call \in Partial(Results)
  BY BatchIs DEF SaveCheckpoint
<1>2. FilesOK'
  BY <1>1, WithFileOK DEF SaveCheckpoint, Saved
<1>3. call' \in Partial(Results \cup {"waiting", "posted", "raised"}) /\ DOMAIN call' = {}
  BY NoRows DEF SaveCheckpoint
<1> QED
  BY <1>2, <1>3 DEF TypeInv, TypeOK, CallsOK, SaveCheckpoint, FilesOK, ghostVars

\* The rows of a torn file are the first of the batch.
TornRows(last) == {s \in DOMAIN call : s < last}
Torn(last) == [r \in TornRows(last) |-> call[r]]

LEMMA CrashIs ==
  ASSUME TypeInv, Crash
  PROVE  /\ pc \in {"start", "loop", "calls", "save"} /\ pc' = "start"
         /\ attempt \in Nat /\ attempt' = attempt + 1
         /\ attempt' \in 1..LastAttempt
         /\ paid' \in [Rows -> Nat]
         /\ \A r \in Rows \ InState("posted") : paid'[r] = paid[r]
         /\ \A r \in Rows : paid'[r] \in {paid[r], paid[r] + 1}
         /\ \/ files' = files
            \/ /\ pc = "save"
               /\ \E last \in DOMAIN call : files' = WithFile(Min(DOMAIN call), Torn(last))
         /\ done' = <<>> /\ call' = <<>>
         /\ DOMAIN done' = {} /\ DOMAIN call' = {}
         /\ UNCHANGED <<cancel, version, heard, misread>>
<1>1. PICK billed \in SUBSET InState("posted") :
        paid' = [r \in Rows |-> paid[r] + IF r \in billed THEN 1 ELSE 0]
  BY DEF Crash
<1>2. /\ paid' \in [Rows -> Nat]
      /\ \A r \in Rows \ InState("posted") : paid'[r] = paid[r]
      /\ \A r \in Rows : paid'[r] \in {paid[r], paid[r] + 1}
  BY <1>1 DEF TypeInv, TypeOK
<1>3. attempt \in Nat /\ attempt' = attempt + 1 /\ attempt' \in 1..LastAttempt
  BY SizeAssumption DEF Crash, TypeInv, TypeOK
<1>4. \/ files' = files
      \/ /\ pc = "save"
         /\ \E last \in DOMAIN call : files' = WithFile(Min(DOMAIN call), Torn(last))
  BY Zenon DEF Crash, Torn, TornRows
<1> QED
  BY <1>2, <1>3, <1>4, NoRows DEF Crash

LEMMA TypeCrash == TypeInv /\ Crash => TypeInv'
<1> SUFFICES ASSUME TypeInv, Crash PROVE TypeInv'
  OBVIOUS
<1>1. FilesOK'
  <2>1. FilesOK
    BY DEF TypeInv, TypeOK, FilesOK
  <2>2. ASSUME pc = "save", NEW last \in DOMAIN call,
               files' = WithFile(Min(DOMAIN call), Torn(last))
        PROVE  FilesOK'
    <3>1. Min(DOMAIN call) \in Rows /\ Torn(last) \in Partial(Results)
      BY <2>2, BatchIs DEF Torn, TornRows
    <3> QED
      BY <2>1, <2>2, <3>1, WithFileOK
  <2> QED
    BY <2>1, <2>2, CrashIs DEF FilesOK
<1>2. done' \in Partial(Results) /\ call' \in Partial(Results \cup {"waiting", "posted", "raised"})
  BY CrashIs, NoRows
<1> QED
  BY <1>1, <1>2, CrashIs DEF TypeInv, TypeOK, CallsOK, FilesOK

LEMMA TypeStep == TypeInv /\ [Next]_vars => TypeInv'
<1> SUFFICES ASSUME TypeInv, [Next]_vars PROVE TypeInv'
  OBVIOUS
<1>1. CASE Commit
  <2>1. version' \in [Rows -> Results]
    <3>1. \A r \in Rows : r \in DOMAIN done
      BY <1>1 DEF Commit, Pending
    <3>2. \A r \in Rows : done[r] \in Results
      BY <3>1, PartialIs DEF TypeInv, TypeOK
    <3> QED
      BY <1>1, <3>2 DEF Commit
  <2> QED
    BY <1>1, <2>1 DEF TypeInv, TypeOK, CallsOK, Commit, ghostVars
<1>2. CASE ClearCheckpoint
  <2>1. DOMAIN files' = {}
    BY <1>2, NoRows DEF ClearCheckpoint
  <2> QED
    BY <1>2, <2>1 DEF TypeInv, TypeOK, CallsOK, ClearCheckpoint, ghostVars
<1>3. CASE RequestCancel
  BY <1>3 DEF TypeInv, TypeOK, CallsOK, RequestCancel, ghostVars, Early, Pending, AllAnswered
<1>4. CASE UNCHANGED vars
  BY <1>4 DEF TypeInv, TypeOK, CallsOK, vars, stepVars, ghostVars, Early, Pending, AllAnswered
<1> QED
  BY <1>1, <1>2, <1>3, <1>4, TypeLoad, TypeBatch, TypeBegin, TypeEnd, TypeDone, TypeSave,
     TypeCrash DEF Next

\* TypeOK: whatever crashes, tears or is lost, the tables of a step hold rows of the
\* input and results, and the attempts stay within their bound.
THEOREM TypeCorrect == Spec => []TypeOK
<1>1. TypeInv => TypeOK
  BY DEF TypeInv
<1> QED
  BY TypeStart, TypeStep, <1>1, PTL DEF Spec

(***************************************************************************)
(* What a step knows of a row it was told: what is in done, in a file, in  *)
(* a coroutine that has ended or in the version is a result that the mesh  *)
(* gave for that very row.                                                 *)
(***************************************************************************)

Known(g) == \A r \in DOMAIN g : g[r] \in Results => <<r, g[r]>> \in heard

AnswerInv ==
  /\ Known(done)
  /\ \A f \in DOMAIN files : Known(files[f])
  /\ Known(call)
  /\ OutputIsWhole

\* What is known stays known.
LEMMA KnownStays ==
  ASSUME NEW g, Known(g), heard \subseteq heard'
  PROVE  \A r \in DOMAIN g : g[r] \in Results => <<r, g[r]>> \in heard'
BY DEF Known

LEMMA AnswerFrame ==
  ASSUME AnswerInv, heard \subseteq heard', UNCHANGED <<done, files, version>>, Known(call)'
  PROVE  AnswerInv'
BY KnownStays DEF AnswerInv, Known, OutputIsWhole

LEMMA AnswerStart == Init => AnswerInv
BY NoRows DEF Init, AnswerInv, Known, OutputIsWhole

LEMMA AnswerLoad == TypeInv /\ AnswerInv /\ LoadCheckpoint => AnswerInv'
<1> SUFFICES ASSUME TypeInv, AnswerInv, LoadCheckpoint PROVE AnswerInv'
  OBVIOUS
<1>1. PICK lost \in SUBSET DOMAIN files : done' = Merged(DOMAIN files \ lost)
  BY DEF LoadCheckpoint
<1>2. Known(done)'
  <2> SUFFICES ASSUME NEW r \in DOMAIN done', done'[r] \in Results
               PROVE  <<r, done'[r]>> \in heard
    BY DEF Known, LoadCheckpoint
  <2>1. FilesOK
    BY DEF TypeInv, TypeOK, FilesOK
  <2>2. PICK f \in DOMAIN files : r \in DOMAIN files[f] /\ done'[r] = files[f][r]
    BY <1>1, <2>1, MergedIs
  <2> QED
    BY <2>2 DEF AnswerInv, Known
<1> QED
  BY <1>2 DEF AnswerInv, Known, OutputIsWhole, LoadCheckpoint

LEMMA AnswerBatch == AnswerInv /\ StartBatch => AnswerInv'
<1> SUFFICES ASSUME AnswerInv, StartBatch PROVE AnswerInv'
  OBVIOUS
<1>1. Known(call)'
  BY DEF AnswerInv, Known, StartBatch, Results, ghostVars
<1> QED
  BY <1>1, AnswerFrame DEF StartBatch, ghostVars

LEMMA AnswerBegin == ASSUME NEW r \in Rows PROVE TypeInv /\ AnswerInv /\ BeginCall(r) => AnswerInv'
<1> SUFFICES ASSUME TypeInv, AnswerInv, BeginCall(r) PROVE AnswerInv'
  OBVIOUS
<1>1. r \in DOMAIN call /\ call' = [call EXCEPT ![r] = "posted"]
  BY DEF BeginCall, InState
<1>2. /\ DOMAIN call' = DOMAIN call /\ call'[r] = "posted"
      /\ \A q \in DOMAIN call : q # r => call'[q] = call[q]
  BY <1>1, OneCall DEF States
<1>3. Known(call)'
  BY <1>2 DEF AnswerInv, Known, BeginCall, ghostVars, Results
<1> QED
  BY <1>3, AnswerFrame DEF BeginCall, ghostVars

LEMMA AnswerEnd ==
  ASSUME NEW r \in Rows, NEW e \in Endings
  PROVE  TypeInv /\ AnswerInv /\ EndCall(r, e) => AnswerInv'
<1> SUFFICES ASSUME TypeInv, AnswerInv, EndCall(r, e) PROVE AnswerInv'
  OBVIOUS
<1>1. /\ DOMAIN call' = DOMAIN call /\ heard \subseteq heard'
      /\ call'[r] \in Results => heard' = heard \cup {<<r, call'[r]>>}
      /\ \A q \in DOMAIN call : q # r => call'[q] = call[q]
  BY EndIs
<1>2. Known(call)'
  BY <1>1 DEF AnswerInv, Known
<1> QED
  BY <1>1, <1>2, AnswerFrame DEF EndCall

LEMMA AnswerDone == TypeInv /\ AnswerInv /\ BatchDone => AnswerInv'
<1> SUFFICES ASSUME TypeInv, AnswerInv, BatchDone PROVE AnswerInv'
  OBVIOUS
<1>1. Known(done)'
  BY DEF BatchDone, ghostVars, AnswerInv, Known
<1> QED
  BY <1>1 DEF AnswerInv, Known, OutputIsWhole, BatchDone, ghostVars

\* A file of some of the rows of a batch that is known.
LEMMA AnswerFile ==
  ASSUME TypeInv, AnswerInv, pc = "save", NEW S \in SUBSET DOMAIN call,
         files' = WithFile(Min(DOMAIN call), [r \in S |-> call[r]]), UNCHANGED heard
  PROVE  \A f \in DOMAIN files' : Known(files[f])'
<1> DEFINE m == Min(DOMAIN call)
           g == [r \in S |-> call[r]]
<1>1. FilesOK /\ m \in Rows /\ g \in Partial(Results)
  BY BatchIs
<1>2. \A r \in DOMAIN g : <<r, g[r]>> \in heard
  BY DEF AnswerInv, Known, TypeInv, CallsOK, AllAnswered
<1>3. files' = WithFile(m, g)
  OBVIOUS
<1> HIDE DEF m, g
<1>4. /\ DOMAIN files' = DOMAIN files \cup {m} /\ files'[m] = g
      /\ \A f \in DOMAIN files : f # m => files'[f] = files[f]
  BY <1>1, <1>3, WithFileOK
<1> SUFFICES ASSUME NEW f \in DOMAIN files' PROVE Known(files[f])'
  OBVIOUS
<1>5. CASE f = m
  BY <1>2, <1>4, <1>5 DEF Known
<1>6. CASE f # m
  BY <1>4, <1>6 DEF AnswerInv, Known
<1> QED
  BY <1>5, <1>6

LEMMA AnswerSave == TypeInv /\ AnswerInv /\ SaveCheckpoint => AnswerInv'
<1> SUFFICES ASSUME TypeInv, AnswerInv, SaveCheckpoint PROVE AnswerInv'
  OBVIOUS
<1>1. files' = WithFile(Min(DOMAIN call), [r \in DOMAIN call |-> call[r]])
  BY BatchIs DEF SaveCheckpoint, Saved
<1>2. \A f \in DOMAIN files' : Known(files[f])'
  BY <1>1, AnswerFile DEF SaveCheckpoint, ghostVars
<1>3. Known(call)'
  BY NoRows DEF Known, SaveCheckpoint
<1>4. Known(done)' /\ OutputIsWhole'
  BY DEF AnswerInv, Known, OutputIsWhole, SaveCheckpoint, ghostVars
<1> QED
  BY <1>2, <1>3, <1>4 DEF AnswerInv

LEMMA AnswerCrash == TypeInv /\ AnswerInv /\ Crash => AnswerInv'
<1> SUFFICES ASSUME TypeInv, AnswerInv, Crash PROVE AnswerInv'
  OBVIOUS
<1>1. \A f \in DOMAIN files' : Known(files[f])'
  <2>1. CASE files' = files
    BY <2>1, CrashIs DEF AnswerInv, Known
  <2>2. ASSUME pc = "save", NEW last \in DOMAIN call,
               files' = WithFile(Min(DOMAIN call), Torn(last))
        PROVE  \A f \in DOMAIN files' : Known(files[f])'
    <3>1. TornRows(last) \in SUBSET DOMAIN call /\ heard' = heard
      BY CrashIs DEF TornRows
    <3> QED
      BY <2>2, <3>1, AnswerFile DEF Torn
  <2> QED
    BY <2>1, <2>2, CrashIs
<1>2. Known(done)' /\ Known(call)'
  BY CrashIs DEF Known
<1>3. OutputIsWhole'
  BY CrashIs DEF AnswerInv, OutputIsWhole
<1> QED
  BY <1>1, <1>2, <1>3 DEF AnswerInv

LEMMA AnswerStep == TypeInv /\ AnswerInv /\ [Next]_vars => AnswerInv'
<1> SUFFICES ASSUME TypeInv, AnswerInv, [Next]_vars PROVE AnswerInv'
  OBVIOUS
<1>1. CASE Commit
  <2>1. ASSUME NEW r \in Rows PROVE <<r, done[r]>> \in heard
    <3>1. r \in DOMAIN done
      BY <1>1 DEF Commit, Pending
    <3>2. done[r] \in Results
      BY <3>1, PartialIs DEF TypeInv, TypeOK
    <3> QED
      BY <3>1, <3>2 DEF AnswerInv, Known
  <2> QED
    BY <1>1, <2>1 DEF AnswerInv, Known, OutputIsWhole, Commit, ghostVars
<1>2. CASE ClearCheckpoint
  <2>1. DOMAIN files' = {}
    BY <1>2, NoRows DEF ClearCheckpoint
  <2> QED
    BY <1>2, <2>1 DEF AnswerInv, Known, OutputIsWhole, ClearCheckpoint, ghostVars
<1>3. CASE RequestCancel
  BY <1>3 DEF AnswerInv, Known, OutputIsWhole, RequestCancel, ghostVars
<1>4. CASE UNCHANGED vars
  BY <1>4 DEF AnswerInv, Known, OutputIsWhole, vars, stepVars, ghostVars
<1> QED
  BY <1>1, <1>2, <1>3, <1>4, AnswerLoad, AnswerBatch, AnswerBegin, AnswerEnd, AnswerDone,
     AnswerSave, AnswerCrash DEF Next

\* OutputIsWhole: whatever was torn, lost, resumed or finished out of order, a
\* committed version has every row of the input, with what the mesh said of it.
THEOREM OutputIsTheAnswers == Spec => []OutputIsWhole
<1>1. AnswerInv => OutputIsWhole
  BY DEF AnswerInv
<1> QED
  BY TypeStart, TypeStep, AnswerStart, AnswerStep, <1>1, PTL DEF Spec

(***************************************************************************)
(* What a crash costs.  A row is owed again when it is paid for and no     *)
(* file keeps it, or once files are loaded, when the attempt does not know *)
(* it.  A crash can add the rows of one batch to what was paid beyond the  *)
(* first time and what is owed, a load the rows that it cannot read, and   *)
(* no other step adds anything.                                            *)
(***************************************************************************)

Open == {"loop", "calls", "save"}

\* A file is named for a row of its own, and what the attempt knew before its batch
\* stays in files that the batch does not take over.
FileInv ==
  /\ \A f \in DOMAIN files : DOMAIN files[f] # {} => f \in DOMAIN files[f]
  /\ pc \in Open =>
       \A r \in DOMAIN done \ DOMAIN call :
         \E f \in DOMAIN files : f \in DOMAIN done \ DOMAIN call /\ r \in DOMAIN files[f]
  /\ Cardinality(DOMAIN call) =< CheckpointEvery

Extra(r) == IF paid[r] > 1 THEN paid[r] - 1 ELSE 0
Owed(r) ==
  /\ paid[r] > 0
  /\ IF pc = "start" THEN r \notin InFiles
     ELSE r \notin DOMAIN done /\ (r \in DOMAIN call => call[r] \in {"waiting", "posted"})
Debt == [r \in Rows |-> Extra(r) + IF Owed(r) THEN 1 ELSE 0]

DebtInv == SumFunction(Debt) =< CheckpointEvery * (attempt - 1) + misread

\* The rows that no file ever held, but for those in M.
Left(M) == (Rows \ InFiles) \ M
SavedBut(M) ==
  /\ Cardinality(M) =< misread
  /\ pc \in Open => InFiles \ (DOMAIN done \ DOMAIN call) \subseteq M
  /\ pc # "cleared" =>
       \A r \in Left(M) : paid[r] > 0 \/ r \in DOMAIN call => r \in Early(Left(M))
SavedInv == \E M \in SUBSET Rows : SavedBut(M)

LossInv == FileInv /\ DebtInv

\* A step that adds no more than what S holds to what is paid and owed.
LEMMA DebtGrows ==
  ASSUME TypeInv, TypeInv', NEW S \in SUBSET Rows,
         \A r \in Rows : Debt'[r] =< Debt[r] + IF r \in S THEN 1 ELSE 0
  PROVE  /\ SumFunction(Debt) \in Nat /\ SumFunction(Debt') \in Nat
         /\ SumFunction(Debt') =< SumFunction(Debt) + Cardinality(S)
<1>1. Debt \in [Rows -> Nat]
  BY DEF Debt, Extra, TypeInv, TypeOK
<1>2. Debt' \in [Rows -> Nat]
  BY DEF Debt, Extra, TypeInv, TypeOK
<1> DEFINE v == Debt
<1> HIDE DEF Debt
<1>3. ASSUME NEW w \in [Rows -> Nat], w = Debt'
      PROVE  /\ SumFunction(Debt) \in Nat /\ SumFunction(w) \in Nat
             /\ SumFunction(Debt) + Cardinality(S) >= SumFunction(w)
  <2>1. Larger(Debt, w, S)
    BY <1>3 DEF Larger
  <2>2. /\ SumFunction(Debt) \in Nat /\ SumFunction(w) \in Nat
        /\ SumFunction(w) =< SumFunction(Debt) + Cardinality(S)
    BY <1>1, <1>3, <2>1, SumGrows
  <2> QED
    BY <2>2, RowsFinite
<1> QED
  BY <1>2, <1>3, RowsFinite

LEMMA DebtIs ==
  ASSUME NEW r \in Rows, TypeInv
  PROVE  /\ Extra(r) \in Nat
         /\ Debt[r] = Extra(r) + IF Owed(r) THEN 1 ELSE 0
BY DEF Debt, Extra, TypeInv, TypeOK

Cost(r) == Extra(r) + IF Owed(r) THEN 1 ELSE 0

LEMMA DebtStep ==
  ASSUME TypeInv, TypeInv', DebtInv, NEW S \in SUBSET Rows,
         \A r \in Rows : Cost(r)' =< Cost(r) + IF r \in S THEN 1 ELSE 0,
         CheckpointEvery * (attempt - 1) + misread + Cardinality(S)
           =< CheckpointEvery * (attempt' - 1) + misread'
  PROVE  DebtInv'
<1>1. \A r \in Rows : Debt'[r] = Cost(r)' /\ Debt[r] = Cost(r)
  BY DEF Debt, Cost
<1>2. \A r \in Rows : Debt'[r] =< Debt[r] + IF r \in S THEN 1 ELSE 0
  BY <1>1
<1>3. /\ SumFunction(Debt) \in Nat /\ SumFunction(Debt') \in Nat
      /\ SumFunction(Debt') =< SumFunction(Debt) + Cardinality(S)
  BY <1>2, DebtGrows
<1> DEFINE a == CheckpointEvery * (attempt - 1) + misread
           b == CheckpointEvery * (attempt' - 1) + misread'
           old == SumFunction(Debt)
           new == SumFunction(Debt')
<1>4. a \in Nat /\ b \in Nat
  BY SizeAssumption DEF TypeInv, TypeOK
<1>5. old =< a /\ a + Cardinality(S) =< b
  BY DEF DebtInv
<1>6. Cardinality(S) \in Nat
  BY RowsFinite
<1>7. old \in Nat /\ new \in Nat /\ new =< old + Cardinality(S)
  BY <1>3
<1>8. new =< b
  <2> HIDE DEF a, b, old, new
  <2> QED
    BY <1>4, <1>5, <1>6, <1>7
<1> QED
  BY <1>8 DEF DebtInv

LEMMA CostNat == ASSUME TypeInv, NEW r \in Rows PROVE Cost(r) \in Nat /\ Extra(r) \in Nat
BY DEF Cost, Extra, TypeInv, TypeOK

\* A step that neither bills nor forgets.
LEMMA DebtFrame ==
  ASSUME TypeInv, TypeInv', DebtInv, UNCHANGED <<attempt, misread, paid>>,
         \A r \in Rows : Owed(r)' => Owed(r)
  PROVE  DebtInv'
<1>1. \A r \in Rows : Cost(r)' =< Cost(r) + IF r \in {} THEN 1 ELSE 0
  <2> SUFFICES ASSUME NEW r \in Rows PROVE Cost(r)' =< Cost(r)
    BY CostNat
  <2>1. Extra(r)' = Extra(r) /\ Extra(r) \in Nat
    BY CostNat DEF Extra
  <2> QED
    BY <2>1 DEF Cost
<1>2. {} \in SUBSET Rows /\ Cardinality({}) = 0
  BY FS_EmptySet
<1>3. CheckpointEvery * (attempt - 1) + misread + 0
        =< CheckpointEvery * (attempt' - 1) + misread'
  BY SizeAssumption DEF TypeInv, TypeOK
<1> QED
  BY <1>1, <1>2, <1>3, DebtStep

(***************************************************************************)
(* The files.                                                              *)
(***************************************************************************)

LEMMA FileStart == Init => FileInv
<1> SUFFICES ASSUME Init PROVE FileInv
  OBVIOUS
<1>1. DOMAIN files = {} /\ DOMAIN call = {} /\ DOMAIN done = {}
  BY NoRows DEF Init
<1> QED
  BY <1>1, FS_EmptySet, SizeAssumption DEF FileInv

LEMMA FileLoad == TypeInv /\ FileInv /\ LoadCheckpoint => FileInv'
<1> SUFFICES ASSUME TypeInv, FileInv, LoadCheckpoint PROVE FileInv'
  OBVIOUS
<1>1. PICK lost \in SUBSET DOMAIN files : done' = Merged(DOMAIN files \ lost)
  BY DEF LoadCheckpoint
<1> DEFINE read == DOMAIN files \ lost
<1>2. DOMAIN done' = UNION {DOMAIN files[f] : f \in read}
  <2>1. FilesOK
    BY DEF TypeInv, TypeOK, FilesOK
  <2> QED
    BY <1>1, <2>1, MergedIs
<1>3. DOMAIN call = {} /\ call' = call /\ files' = files
  BY DEF LoadCheckpoint, TypeInv, CallsOK
<1>4. ASSUME NEW r \in DOMAIN done'
      PROVE  \E f \in DOMAIN files : f \in DOMAIN done' /\ r \in DOMAIN files[f]
  <2>1. PICK f \in read : r \in DOMAIN files[f]
    BY <1>2
  <2>2. f \in DOMAIN files[f]
    BY <2>1 DEF FileInv
  <2> QED
    BY <1>2, <2>1, <2>2
<1> QED
  BY <1>3, <1>4 DEF FileInv

LEMMA FileBatch == TypeInv /\ FileInv /\ StartBatch => FileInv'
<1> SUFFICES ASSUME TypeInv, FileInv, StartBatch PROVE FileInv'
  OBVIOUS
<1>1. UNCHANGED <<done, files>>
  BY DEF StartBatch
<1>2. CASE cancel
  BY <1>1, <1>2 DEF StartBatch, FileInv, Open
<1>3. CASE ~cancel
  <2>1. DOMAIN call' = Early(Pending) /\ DOMAIN call = {} /\ pc = "loop"
    BY <1>3, NextIsEarly DEF StartBatch, TypeInv, CallsOK
  <2>2. Pending \in SUBSET Rows
    BY DEF Pending
  <2>3. Cardinality(DOMAIN call') =< CheckpointEvery
    BY <2>1, <2>2, EarlyIsABatch
  <2>4. DOMAIN done \ DOMAIN call' = DOMAIN done \ DOMAIN call
    BY <2>1 DEF Early, Pending
  <2> QED
    BY <1>1, <2>1, <2>3, <2>4 DEF FileInv, Open
<1> QED
  BY <1>2, <1>3

\* A batch that is written, as a whole or in part, takes no file over that holds what
\* the attempt knew before.
LEMMA FileKept ==
  ASSUME TypeInv, FileInv, pc = "save", NEW S \in SUBSET DOMAIN call,
         files' = WithFile(Min(DOMAIN call), [r \in S |-> call[r]])
  PROVE  /\ DOMAIN files' = DOMAIN files \cup {Min(DOMAIN call)}
         /\ DOMAIN files'[Min(DOMAIN call)] = S
         /\ \A f \in DOMAIN files : f # Min(DOMAIN call) => files'[f] = files[f]
         /\ \A r \in DOMAIN done \ DOMAIN call :
              \E f \in DOMAIN files' : f \in DOMAIN done \ DOMAIN call /\ r \in DOMAIN files'[f]
<1> DEFINE m == Min(DOMAIN call)
           g == [r \in S |-> call[r]]
<1>1. FilesOK /\ m \in Rows /\ g \in Partial(Results) /\ m \in DOMAIN call /\ DOMAIN g = S
  BY BatchIs
<1>2. files' = WithFile(m, g)
  OBVIOUS
<1> HIDE DEF m, g
<1>3. /\ DOMAIN files' = DOMAIN files \cup {m} /\ files'[m] = g
      /\ \A f \in DOMAIN files : f # m => files'[f] = files[f]
  BY <1>1, <1>2, WithFileOK
<1>4. ASSUME NEW r \in DOMAIN done \ DOMAIN call
      PROVE  \E f \in DOMAIN files' : f \in DOMAIN done \ DOMAIN call /\ r \in DOMAIN files'[f]
  <2>1. PICK f \in DOMAIN files : f \in DOMAIN done \ DOMAIN call /\ r \in DOMAIN files[f]
    BY <1>4 DEF FileInv, Open
  <2>2. f # m
    BY <1>1, <2>1
  <2> QED
    BY <1>3, <2>1, <2>2
<1>5. DOMAIN files' = DOMAIN files \cup {m} /\ DOMAIN files'[m] = S
  BY <1>1, <1>3
<1> QED
  BY <1>3, <1>4, <1>5 DEF m

LEMMA FileSave == TypeInv /\ FileInv /\ SaveCheckpoint => FileInv'
<1> SUFFICES ASSUME TypeInv, FileInv, SaveCheckpoint PROVE FileInv'
  OBVIOUS
<1> DEFINE m == Min(DOMAIN call)
<1>1. /\ pc = "save" /\ DOMAIN call \in SUBSET DOMAIN call
      /\ files' = WithFile(m, [r \in DOMAIN call |-> call[r]])
  BY BatchIs DEF SaveCheckpoint, Saved
<1>2. /\ DOMAIN files' = DOMAIN files \cup {m} /\ DOMAIN files'[m] = DOMAIN call
      /\ \A f \in DOMAIN files : f # m => files'[f] = files[f]
      /\ \A r \in DOMAIN done \ DOMAIN call :
           \E f \in DOMAIN files' : f \in DOMAIN done \ DOMAIN call /\ r \in DOMAIN files'[f]
  BY <1>1, FileKept
<1>3. m \in DOMAIN call /\ DOMAIN call \subseteq DOMAIN done
  BY <1>1, BatchIs DEF TypeInv, CallsOK
<1> HIDE DEF m
<1>4. DOMAIN call' = {} /\ done' = done
  BY NoRows DEF SaveCheckpoint
<1>5. \A f \in DOMAIN files' : DOMAIN files'[f] # {} => f \in DOMAIN files'[f]
  BY <1>2, <1>3 DEF FileInv
<1>6. \A r \in DOMAIN done : \E f \in DOMAIN files' : f \in DOMAIN done /\ r \in DOMAIN files'[f]
  BY <1>2, <1>3
<1>7. Cardinality(DOMAIN call') =< CheckpointEvery
  BY <1>4, FS_EmptySet, SizeAssumption
<1> QED
  BY <1>4, <1>5, <1>6, <1>7 DEF FileInv

LEMMA FileCrash == TypeInv /\ FileInv /\ Crash => FileInv'
<1> SUFFICES ASSUME TypeInv, FileInv, Crash PROVE FileInv'
  OBVIOUS
<1>1. DOMAIN call' = {} /\ pc' = "start"
  BY CrashIs
<1>2. Cardinality(DOMAIN call') =< CheckpointEvery
  BY <1>1, FS_EmptySet, SizeAssumption
<1>3. \A f \in DOMAIN files' : DOMAIN files'[f] # {} => f \in DOMAIN files'[f]
  <2>1. CASE files' = files
    BY <2>1 DEF FileInv
  <2>2. ASSUME pc = "save", NEW last \in DOMAIN call,
               files' = WithFile(Min(DOMAIN call), Torn(last))
        PROVE  \A f \in DOMAIN files' : DOMAIN files'[f] # {} => f \in DOMAIN files'[f]
    <3> DEFINE m == Min(DOMAIN call)
               S == TornRows(last)
    <3>1. S \in SUBSET DOMAIN call /\ files' = WithFile(m, [r \in S |-> call[r]])
      BY <2>2 DEF TornRows, Torn
    <3>2. /\ DOMAIN files' = DOMAIN files \cup {m} /\ DOMAIN files'[m] = S
          /\ \A f \in DOMAIN files : f # m => files'[f] = files[f]
      BY <2>2, <3>1, FileKept
    <3>3. S # {} => m \in S
      <4> SUFFICES ASSUME NEW s \in S PROVE m < last /\ m \in DOMAIN call
        BY DEF TornRows
      <4>1. s \in DOMAIN call /\ s < last
        BY DEF TornRows
      <4>2. m \in DOMAIN call /\ m =< s /\ DOMAIN call \in SUBSET Rows
        BY <2>2, <4>1, BatchIs
      <4>3. m \in Nat /\ s \in Nat /\ last \in Nat
        BY <2>2, <4>1, <4>2, RowsFinite
      <4> HIDE DEF m
      <4> QED
        BY <4>1, <4>2, <4>3
    <3> HIDE DEF m, S
    <3> QED
      BY <3>2, <3>3 DEF FileInv
  <2> QED
    BY <2>1, <2>2, CrashIs
<1> QED
  BY <1>1, <1>2, <1>3 DEF FileInv, Open

LEMMA FileStep == TypeInv /\ FileInv /\ [Next]_vars => FileInv'
<1> SUFFICES ASSUME TypeInv, FileInv, [Next]_vars PROVE FileInv'
  OBVIOUS
<1>1. ASSUME NEW r \in Rows, BeginCall(r) PROVE FileInv'
  <2>1. r \in DOMAIN call /\ call' = [call EXCEPT ![r] = "posted"]
    BY <1>1 DEF BeginCall, InState
  <2>2. DOMAIN call' = DOMAIN call
    BY <2>1, OneCall DEF States
  <2> QED
    BY <1>1, <2>2 DEF FileInv, BeginCall
<1>2. ASSUME NEW r \in Rows, NEW e \in Endings, EndCall(r, e) PROVE FileInv'
  <2>1. DOMAIN call' = DOMAIN call /\ pc' \in {pc, "aborted"}
    BY <1>2, EndIs
  <2> QED
    BY <1>2, <2>1 DEF FileInv, EndCall, Open
<1>3. CASE BatchDone
  <2>1. DOMAIN done' = DOMAIN done \cup DOMAIN call /\ pc = "calls" /\ UNCHANGED <<call, files>>
    BY <1>3 DEF BatchDone
  <2>2. DOMAIN done' \ DOMAIN call = DOMAIN done \ DOMAIN call
    BY <2>1
  <2> QED
    BY <2>1, <2>2 DEF FileInv, Open
<1>4. CASE ClearCheckpoint
  <2>1. DOMAIN files' = {}
    BY <1>4, NoRows DEF ClearCheckpoint
  <2> QED
    BY <1>4, <2>1 DEF FileInv, ClearCheckpoint, Open
<1>5. CASE Commit
  BY <1>5 DEF FileInv, Commit, Open
<1>6. CASE RequestCancel
  BY <1>6 DEF FileInv, RequestCancel
<1>7. CASE UNCHANGED vars
  BY <1>7 DEF FileInv, vars, stepVars, ghostVars
<1> QED
  BY <1>1, <1>2, <1>3, <1>4, <1>5, <1>6, <1>7, FileLoad, FileBatch, FileSave, FileCrash
     DEF Next

(***************************************************************************)
(* What is paid more than once.                                            *)
(***************************************************************************)

\* No row has a cost at first: the sum of nothing but zeros is no more than itself, and
\* no set of rows adds to it.
LEMMA ZeroSum ==
  ASSUME NEW w \in [Rows -> Nat], \A r \in Rows : w[r] = 0
  PROVE  SumFunction(w) = 0
<1> DEFINE f == CHOOSE h : IsSum(w, h)
           zero == [s \in SUBSET Rows |-> 0]
<1>1. IsSum(w, f)
  BY SumExists
<1>2. SumFunction(w) = f[Rows]
  BY SumIsChosen
<1> HIDE DEF f
<1> DEFINE Bad == {n \in Nat : \E s \in SUBSET Rows : f[s] # 0 /\ Cardinality(s) = n}
<1> SUFFICES ASSUME f[Rows] # 0 PROVE FALSE
  BY <1>2
<1>3. PICK n \in Bad : \A m \in Bad : n =< m
  <2>1. Bad \in SUBSET Nat /\ Bad # {}
    BY RowsFinite
  <2> QED
    BY <2>1, LeastExists
<1>4. PICK s \in SUBSET Rows : f[s] # 0 /\ Cardinality(s) = n
  BY <1>3
<1>5. f[s] = Summed(w, f, s)
  BY <1>1 DEF IsSum
<1>6. s # {}
  BY <1>4, <1>5 DEF Summed
<1> DEFINE t == s \ {Pick(s)}
<1>7. /\ Pick(s) \in Rows /\ t \in SUBSET Rows /\ Cardinality(t) \in Nat
      /\ Cardinality(s) = Cardinality(t) + 1
  BY <1>6, PickSmaller
<1>8. f[t] = 0
  <2>1. ~(n =< Cardinality(t))
    BY <1>4, <1>7
  <2> QED
    BY <1>3, <1>7, <2>1
<1> QED
  BY <1>4, <1>5, <1>6, <1>7, <1>8 DEF Summed

LEMMA DebtStart == Init => DebtInv
<1> SUFFICES ASSUME Init PROVE DebtInv
  OBVIOUS
<1>1. Debt \in [Rows -> Nat] /\ \A r \in Rows : Debt[r] = 0
  BY DEF Init, Debt, Extra, Owed
<1> HIDE DEF Debt
<1>2. SumFunction(Debt) = 0
  BY <1>1, ZeroSum
<1> QED
  BY <1>2, SizeAssumption DEF Init, DebtInv

LEMMA DebtLoad == TypeInv /\ DebtInv /\ LoadCheckpoint => DebtInv'
<1> SUFFICES ASSUME TypeInv, DebtInv, LoadCheckpoint PROVE DebtInv'
  OBVIOUS
<1>1. PICK S : S = InFiles \ DOMAIN done'
  OBVIOUS
<1>2. misread' = misread + Cardinality(S) /\ attempt' = attempt /\ paid' = paid
  BY <1>1 DEF LoadCheckpoint
<1>3. S \in SUBSET Rows
  <2>1. FilesOK
    BY DEF TypeInv, TypeOK, FilesOK
  <2> QED
    BY <1>1, <2>1, FiledRows
<1>4. pc = "start" /\ pc' = "loop" /\ DOMAIN call' = {}
  BY DEF LoadCheckpoint, TypeInv, CallsOK
<1>5. ASSUME NEW r \in Rows
      PROVE  Cost(r)' =< Cost(r) + IF r \in S THEN 1 ELSE 0
  <2>1. Extra(r)' = Extra(r) /\ Extra(r) \in Nat
    BY <1>2, CostNat DEF Extra
  <2>2. Owed(r)' /\ r \notin S => Owed(r)
    BY <1>1, <1>2, <1>4 DEF Owed
  <2> HIDE DEF Owed
  <2> QED
    BY <2>1, <2>2 DEF Cost
<1>6. CheckpointEvery * (attempt - 1) + misread + Cardinality(S)
        =< CheckpointEvery * (attempt' - 1) + misread'
  <2>1. Cardinality(S) \in Nat
    BY <1>3, RowsFinite
  <2> QED
    BY <1>2, <2>1, SizeAssumption DEF TypeInv, TypeOK
<1> QED
  BY <1>3, <1>5, <1>6, DebtStep, TypeLoad

LEMMA DebtBatch == TypeInv /\ DebtInv /\ StartBatch => DebtInv'
<1> SUFFICES ASSUME TypeInv, DebtInv, StartBatch PROVE DebtInv'
  OBVIOUS
<1>1. pc = "loop" /\ DOMAIN call = {} /\ pc' # "start"
  BY DEF StartBatch, TypeInv, CallsOK
<1>2. UNCHANGED <<attempt, misread, paid, done>>
  BY DEF StartBatch, ghostVars
<1>3. \A r \in Rows : Owed(r)' => Owed(r)
  BY <1>1, <1>2 DEF Owed
<1> QED
  BY <1>2, <1>3, DebtFrame, TypeBatch

LEMMA DebtBegin == ASSUME NEW r \in Rows PROVE TypeInv /\ DebtInv /\ BeginCall(r) => DebtInv'
<1> SUFFICES ASSUME TypeInv, DebtInv, BeginCall(r) PROVE DebtInv'
  OBVIOUS
<1>1. r \in DOMAIN call /\ call[r] = "waiting" /\ call' = [call EXCEPT ![r] = "posted"]
  BY DEF BeginCall, InState
<1>2. /\ DOMAIN call' = DOMAIN call /\ call'[r] = "posted"
      /\ \A q \in DOMAIN call : q # r => call'[q] = call[q]
  BY <1>1, OneCall DEF States
<1>3. UNCHANGED <<attempt, misread, paid, done, pc, files>>
  BY DEF BeginCall, ghostVars
<1>4. \A q \in Rows : Owed(q)' => Owed(q)
  BY <1>1, <1>2, <1>3 DEF Owed, InFiles
<1> QED
  BY <1>3, <1>4, DebtFrame, TypeBegin

LEMMA DebtEnd ==
  ASSUME NEW r \in Rows, NEW e \in Endings
  PROVE  TypeInv /\ DebtInv /\ EndCall(r, e) => DebtInv'
<1> SUFFICES ASSUME TypeInv, DebtInv, EndCall(r, e) PROVE DebtInv'
  OBVIOUS
<1>1. /\ r \in DOMAIN call /\ call[r] = "posted" /\ pc \in {"calls", "aborted"}
      /\ pc' \in {"calls", "aborted"} /\ DOMAIN call' = DOMAIN call
      /\ call'[r] \in Results \cup {"raised"}
      /\ \A q \in DOMAIN call : q # r => call'[q] = call[q]
      /\ Billed(r)
  BY EndIs
<1>2. UNCHANGED <<attempt, misread, done>>
  BY DEF EndCall
<1>3. r \notin DOMAIN done
  BY <1>1 DEF TypeInv, CallsOK, Early, Pending
<1>4. call'[r] \notin {"waiting", "posted"}
  BY <1>1 DEF Results
<1>5. ASSUME NEW q \in Rows PROVE Cost(q)' =< Cost(q) + IF q \in {} THEN 1 ELSE 0
  <2>1. CASE q = r
    <3>1. ~Owed(r)' /\ (Owed(r) <=> paid[r] > 0)
      BY <1>1, <1>2, <1>3, <1>4 DEF Owed
    <3>2. paid[r] \in Nat /\ paid'[r] \in {paid[r], paid[r] + 1}
      BY <1>1 DEF Billed, TypeInv, TypeOK
    <3> HIDE DEF Owed
    <3> QED
      BY <2>1, <3>1, <3>2 DEF Cost, Extra
  <2>2. CASE q # r
    <3>1. paid'[q] = paid[q]
      BY <1>1, <2>2 DEF Billed
    <3>2. Owed(q)' => Owed(q)
      BY <1>1, <1>2, <2>2, <3>1 DEF Owed
    <3>3. Extra(q)' = Extra(q) /\ Extra(q) \in Nat
      BY <3>1, CostNat DEF Extra
    <3> HIDE DEF Owed
    <3> QED
      BY <3>2, <3>3 DEF Cost
  <2> QED
    BY <2>1, <2>2
<1>6. {} \in SUBSET Rows /\ Cardinality({}) = 0
  BY FS_EmptySet
<1>7. CheckpointEvery * (attempt - 1) + misread + 0
        =< CheckpointEvery * (attempt' - 1) + misread'
  BY <1>2, SizeAssumption DEF TypeInv, TypeOK
<1> QED
  BY <1>5, <1>6, <1>7, DebtStep, TypeEnd

LEMMA DebtDone == TypeInv /\ DebtInv /\ BatchDone => DebtInv'
<1> SUFFICES ASSUME TypeInv, DebtInv, BatchDone PROVE DebtInv'
  OBVIOUS
<1>1. /\ DOMAIN done' = DOMAIN done \cup DOMAIN call /\ pc = "calls" /\ pc' = "save"
      /\ UNCHANGED <<attempt, misread, paid, call>>
  BY DEF BatchDone, ghostVars
<1>2. \A r \in Rows : Owed(r)' => Owed(r)
  BY <1>1 DEF Owed
<1> QED
  BY <1>1, <1>2, DebtFrame, TypeDone

LEMMA DebtSave == TypeInv /\ DebtInv /\ SaveCheckpoint => DebtInv'
<1> SUFFICES ASSUME TypeInv, DebtInv, SaveCheckpoint PROVE DebtInv'
  OBVIOUS
<1>1. /\ pc = "save" /\ pc' = "loop" /\ DOMAIN call \subseteq DOMAIN done
      /\ UNCHANGED <<attempt, misread, paid, done>>
  BY DEF SaveCheckpoint, TypeInv, CallsOK, ghostVars
<1>2. \A r \in Rows : Owed(r)' => Owed(r)
  BY <1>1 DEF Owed
<1> QED
  BY <1>1, <1>2, DebtFrame, TypeSave

\* A row that the attempt knew before its batch is still in a file after a crash.
LEMMA CrashKeeps ==
  ASSUME TypeInv, FileInv, Crash, pc \in Open, NEW r \in DOMAIN done \ DOMAIN call
  PROVE  r \in InFiles'
<1>1. CASE files' = files
  BY <1>1 DEF FileInv, InFiles
<1>2. ASSUME pc = "save", NEW last \in DOMAIN call,
             files' = WithFile(Min(DOMAIN call), Torn(last))
      PROVE  r \in InFiles'
  <2>1. TornRows(last) \in SUBSET DOMAIN call
    BY DEF TornRows
  <2>2. \E f \in DOMAIN files' : r \in DOMAIN files'[f]
    BY <1>2, <2>1, FileKept DEF Torn
  <2> QED
    BY <2>2 DEF InFiles
<1> QED
  BY <1>1, <1>2, CrashIs

LEMMA DebtCrash == TypeInv /\ FileInv /\ DebtInv /\ Crash => DebtInv'
<1> SUFFICES ASSUME TypeInv, FileInv, DebtInv, Crash PROVE DebtInv'
  OBVIOUS
<1> DEFINE S == DOMAIN call
<1>1. S \in SUBSET Rows /\ Cardinality(S) \in Nat /\ Cardinality(S) =< CheckpointEvery
  BY PartialIs, RowsFinite DEF TypeInv, TypeOK, FileInv
<1>2. /\ pc \in {"start", "loop", "calls", "save"} /\ pc' = "start"
      /\ attempt \in Nat /\ attempt' = attempt + 1 /\ misread' = misread
      /\ \A r \in Rows \ InState("posted") : paid'[r] = paid[r]
      /\ \A r \in Rows : paid'[r] \in {paid[r], paid[r] + 1}
  BY CrashIs
<1>3. ASSUME NEW r \in Rows
      PROVE  Cost(r)' =< Cost(r) + IF r \in S THEN 1 ELSE 0
  <2>1. CASE r \notin S
    <3>1. paid'[r] = paid[r]
      BY <1>2, <2>1 DEF InState
    <3>2. Extra(r)' = Extra(r) /\ Extra(r) \in Nat
      BY <3>1, CostNat DEF Extra
    <3>3. Owed(r)' => Owed(r)
      <4> SUFFICES ASSUME Owed(r)' PROVE Owed(r)
        OBVIOUS
      <4>1. paid[r] > 0 /\ r \notin InFiles'
        BY <1>2, <3>1 DEF Owed
      <4>2. CASE pc = "start"
        <5>1. files' = files
          BY <4>2, CrashIs
        <5> QED
          BY <4>1, <4>2, <5>1 DEF Owed, InFiles
      <4>3. CASE pc # "start"
        <5>1. r \notin DOMAIN done
          BY <1>2, <2>1, <4>1, <4>3, CrashKeeps DEF Open
        <5> QED
          BY <2>1, <4>1, <4>3, <5>1 DEF Owed
      <4> QED
        BY <4>2, <4>3
    <3> HIDE DEF Owed
    <3> QED
      BY <2>1, <3>2, <3>3 DEF Cost
  <2>2. CASE r \in S
    <3>1. CASE paid'[r] = paid[r]
      <4>1. Extra(r)' = Extra(r) /\ Extra(r) \in Nat
        BY <3>1, CostNat DEF Extra
      <4> QED
        BY <2>2, <4>1 DEF Cost
    <3>2. CASE paid'[r] # paid[r]
      <4>1. r \in DOMAIN call /\ call[r] = "posted" /\ paid'[r] = paid[r] + 1
        BY <1>2, <3>2 DEF InState
      <4>2. pc = "calls"
        <5>1. call[r] \notin Results
          BY <4>1 DEF Results
        <5> QED
          BY <1>2, <4>1, <5>1 DEF TypeInv, CallsOK, AllAnswered
      <4>3. r \notin DOMAIN done
        BY <4>1, <4>2 DEF TypeInv, CallsOK, Early, Pending
      <4>4. Owed(r) <=> paid[r] > 0
        BY <4>1, <4>2, <4>3 DEF Owed
      <4>5. paid[r] \in Nat
        BY DEF TypeInv, TypeOK
      <4> HIDE DEF Owed
      <4>6. Cost(r) = paid[r]
        BY <4>4, <4>5 DEF Cost, Extra
      <4>7. Cost(r)' =< paid[r] + 1
        BY <4>1, <4>5 DEF Cost, Extra
      <4> QED
        BY <2>2, <4>6, <4>7
    <3> QED
      BY <3>1, <3>2
  <2> QED
    BY <2>1, <2>2
<1>4. CheckpointEvery * (attempt - 1) + misread + Cardinality(S)
        =< CheckpointEvery * (attempt' - 1) + misread'
  <2>1. misread \in Nat /\ CheckpointEvery \in Nat
    BY SizeAssumption DEF TypeInv, TypeOK
  <2>2. CheckpointEvery * (attempt' - 1) = CheckpointEvery * (attempt - 1) + CheckpointEvery
    BY <1>2, <2>1
  <2>3. CheckpointEvery * (attempt - 1) \in Int
    BY <1>2, <2>1
  <2> DEFINE a == CheckpointEvery * (attempt - 1)
             b == CheckpointEvery * (attempt' - 1)
  <2> HIDE DEF a, b
  <2>4. b = a + CheckpointEvery /\ a \in Int /\ misread' = misread
    BY <1>2, <2>2, <2>3 DEF a, b
  <2>5. a + misread + Cardinality(S) =< b + misread'
    BY <1>1, <2>1, <2>4
  <2> QED
    BY <2>5 DEF a, b
<1> HIDE DEF S
<1> QED
  BY <1>1, <1>3, <1>4, DebtStep, TypeCrash

LEMMA DebtSteps == TypeInv /\ FileInv /\ DebtInv /\ [Next]_vars => DebtInv'
<1> SUFFICES ASSUME TypeInv, FileInv, DebtInv, [Next]_vars PROVE DebtInv'
  OBVIOUS
<1>0. TypeInv'
  BY TypeStep
<1>1. CASE Commit
  <2>1. UNCHANGED <<attempt, misread, paid, done, call>> /\ pc # "start" /\ pc' # "start"
    BY <1>1 DEF Commit, ghostVars
  <2>2. \A r \in Rows : Owed(r)' => Owed(r)
    BY <2>1 DEF Owed
  <2> QED
    BY <1>0, <2>1, <2>2, DebtFrame
<1>2. CASE ClearCheckpoint
  <2>1. UNCHANGED <<attempt, misread, paid, done, call>> /\ pc # "start" /\ pc' # "start"
    BY <1>2 DEF ClearCheckpoint, ghostVars
  <2>2. \A r \in Rows : Owed(r)' => Owed(r)
    BY <2>1 DEF Owed
  <2> QED
    BY <1>0, <2>1, <2>2, DebtFrame
<1>3. CASE RequestCancel \/ UNCHANGED vars
  <2>1. UNCHANGED <<attempt, misread, paid, done, call, pc, files>>
    BY <1>3 DEF RequestCancel, vars, stepVars, ghostVars
  <2>2. \A r \in Rows : Owed(r)' => Owed(r)
    BY <2>1 DEF Owed, InFiles
  <2> QED
    BY <1>0, <2>1, <2>2, DebtFrame
<1> QED
  BY <1>1, <1>2, <1>3, DebtLoad, DebtBatch, DebtBegin, DebtEnd, DebtDone, DebtSave,
     DebtCrash DEF Next

(***************************************************************************)
(* What no file keeps.  The rows that were paid for and never filed are    *)
(* the first of all that were never filed, but for the rows M of files     *)
(* that some attempt could not read: so they are one batch, however many   *)
(* attempts there were.                                                    *)
(***************************************************************************)

\* A step that files what was filed before, but for rows of M, and pays for rows of
\* the batch only.
LEMMA SavedFrame ==
  ASSUME NEW M \in SUBSET Rows, SavedBut(M), misread' = misread, pc # "cleared",
         \A r \in Left(M) : r \in DOMAIN call' \/ paid'[r] > 0 =>
                              r \in DOMAIN call \/ paid[r] > 0,
         InFiles \subseteq InFiles' \cup M,
         pc' \in Open => InFiles' \ (DOMAIN done' \ DOMAIN call') \subseteq M
  PROVE  SavedBut(M)'
<1> DEFINE T == Left(M)
<1>1. PICK S : S = Left(M)'
  OBVIOUS
<1>2. T \in SUBSET Rows /\ S \in SUBSET T
  BY <1>1 DEF Left
<1>3. ASSUME NEW r \in S, paid'[r] > 0 \/ r \in DOMAIN call' PROVE r \in Early(S)
  <2>1. r \in T
    BY <1>2
  <2>2. r \in Early(T)
    BY <1>3, <2>1 DEF SavedBut
  <2> HIDE DEF T
  <2> QED
    BY <1>2, <2>2, EarlyInPart
<1>4. \A r \in Left(M)' : paid'[r] > 0 \/ r \in DOMAIN call' => r \in Early(Left(M))'
  BY <1>1, <1>3 DEF Early
<1> QED
  BY <1>4 DEF SavedBut

LEMMA SavedStart == Init => SavedInv
<1> SUFFICES ASSUME Init PROVE SavedInv
  OBVIOUS
<1>1. SavedBut({})
  <2>1. DOMAIN files = {} /\ DOMAIN call = {}
    BY NoRows DEF Init
  <2>2. Cardinality({}) =< misread
    BY FS_EmptySet DEF Init
  <2> QED
    BY <2>1, <2>2 DEF Init, SavedBut, Open, Left, InFiles
<1> QED
  BY <1>1 DEF SavedInv

LEMMA SavedLoad == TypeInv /\ SavedInv /\ LoadCheckpoint => SavedInv'
<1> SUFFICES ASSUME TypeInv, SavedInv, LoadCheckpoint PROVE SavedInv'
  OBVIOUS
<1>1. PICK M \in SUBSET Rows : SavedBut(M)
  BY DEF SavedInv
<1>2. PICK X : X = InFiles \ DOMAIN done'
  OBVIOUS
<1>3. X \in SUBSET Rows
  <2>1. FilesOK
    BY DEF TypeInv, TypeOK, FilesOK
  <2> QED
    BY <1>2, <2>1, FiledRows
<1> DEFINE N == M \cup X
<1>4. misread' = misread + Cardinality(X) /\ UNCHANGED <<paid, files, call>>
  BY <1>2 DEF LoadCheckpoint
<1>5. Cardinality(N) =< misread'
  <2>1. IsFiniteSet(M) /\ IsFiniteSet(X) /\ M \cap X \in SUBSET Rows
    BY <1>3, RowsFinite
  <2>2. Cardinality(N) = Cardinality(M) + Cardinality(X) - Cardinality(M \cap X)
    BY <2>1, FS_Union
  <2>3. /\ Cardinality(M) \in Nat /\ Cardinality(X) \in Nat /\ Cardinality(M \cap X) \in Nat
        /\ misread \in Nat
    BY <1>3, <2>1, RowsFinite DEF TypeInv, TypeOK
  <2> QED
    BY <1>1, <1>4, <2>2, <2>3 DEF SavedBut
<1>6. pc = "start" /\ pc' = "loop" /\ DOMAIN call = {}
  BY DEF LoadCheckpoint, TypeInv, CallsOK
<1>7. ASSUME NEW r \in Left(N), paid[r] > 0 PROVE r \in Early(Left(N))
  <2>1. r \in Left(M) /\ Left(M) \in SUBSET Rows /\ Left(N) \in SUBSET Left(M)
    BY DEF Left
  <2>2. r \in Early(Left(M))
    BY <1>1, <1>6, <1>7, <2>1 DEF SavedBut
  <2> QED
    BY <2>1, <2>2, EarlyInPart
<1>8. InFiles' \ (DOMAIN done' \ DOMAIN call') \subseteq N
  BY <1>2, <1>4, <1>6 DEF InFiles
<1>9. N \in SUBSET Rows
  BY <1>3
<1>10. SavedBut(N)'
  <2>1. Left(N)' = Left(N)
    BY <1>4 DEF Left, InFiles
  <2> HIDE DEF N
  <2> QED
    BY <1>4, <1>5, <1>6, <1>7, <1>8, <2>1 DEF SavedBut, Early
<1> HIDE DEF N
<1> QED
  BY <1>9, <1>10 DEF SavedInv

LEMMA SavedBatch ==
  ASSUME TypeInv, FileInv, NEW M \in SUBSET Rows, SavedBut(M), StartBatch
  PROVE  SavedBut(M)'
<1>1. pc = "loop" /\ DOMAIN call = {} /\ UNCHANGED <<paid, files, done, misread>>
  BY DEF StartBatch, TypeInv, CallsOK, ghostVars
<1>2. Left(M)' = Left(M) /\ InFiles' = InFiles
  BY <1>1 DEF Left, InFiles
<1>3. CASE cancel
  <2>1. DOMAIN call' = DOMAIN call /\ pc' = "cancelled"
    BY <1>3 DEF StartBatch
  <2> QED
    BY <1>1, <1>2, <2>1 DEF SavedBut, Open, Early
<1>4. CASE ~cancel
  <2>1. DOMAIN call' = Early(Pending) /\ pc' = "calls" /\ Pending \in SUBSET Rows
    BY <1>4, NextIsEarly DEF StartBatch, Pending
  <2>2. Left(M) \in SUBSET Pending
    <3>1. DOMAIN done \subseteq InFiles
      BY <1>1 DEF FileInv, Open, InFiles
    <3> QED
      BY <3>1 DEF Left, Pending
  <2>3. ASSUME NEW r \in Left(M), paid[r] > 0 \/ r \in DOMAIN call' PROVE r \in Early(Left(M))
    <3>1. CASE paid[r] > 0
      BY <1>1, <3>1 DEF SavedBut
    <3>2. CASE r \in DOMAIN call'
      BY <2>1, <2>2, <3>2, EarlyInPart
    <3> QED
      BY <2>3, <3>1, <3>2
  <2>4. DOMAIN done \ DOMAIN call' = DOMAIN done \ DOMAIN call
    BY <1>1, <2>1 DEF Early, Pending
  <2> QED
    BY <1>1, <1>2, <2>1, <2>3, <2>4 DEF SavedBut, Open, Early
<1> QED
  BY <1>3, <1>4

LEMMA SavedSave ==
  ASSUME TypeInv, FileInv, NEW M \in SUBSET Rows, SavedBut(M), SaveCheckpoint
  PROVE  SavedBut(M)'
<1> DEFINE m == Min(DOMAIN call)
<1>1. /\ pc = "save" /\ DOMAIN call \in SUBSET DOMAIN call
      /\ files' = WithFile(m, [r \in DOMAIN call |-> call[r]])
  BY BatchIs DEF SaveCheckpoint, Saved
<1>2. /\ DOMAIN files' = DOMAIN files \cup {m} /\ DOMAIN files'[m] = DOMAIN call
      /\ \A f \in DOMAIN files : f # m => files'[f] = files[f]
      /\ \A r \in DOMAIN done \ DOMAIN call :
           \E f \in DOMAIN files' : f \in DOMAIN done \ DOMAIN call /\ r \in DOMAIN files'[f]
  BY <1>1, FileKept
<1> HIDE DEF m
<1>3. /\ DOMAIN call' = {} /\ done' = done /\ DOMAIN call \subseteq DOMAIN done
      /\ UNCHANGED <<paid, misread>>
  BY NoRows DEF SaveCheckpoint, TypeInv, CallsOK, ghostVars
<1>4. DOMAIN call \subseteq InFiles' /\ DOMAIN done \ DOMAIN call \subseteq InFiles'
  BY <1>2 DEF InFiles
<1>5. InFiles' \subseteq InFiles \cup DOMAIN call
  <2> SUFFICES ASSUME NEW r \in InFiles' PROVE r \in InFiles \cup DOMAIN call
    OBVIOUS
  <2>1. PICK f \in DOMAIN files' : r \in DOMAIN files'[f]
    BY DEF InFiles
  <2>2. CASE f = m
    BY <1>2, <2>1, <2>2
  <2>3. CASE f # m
    BY <1>2, <2>1, <2>3 DEF InFiles
  <2> QED
    BY <2>2, <2>3
<1>6. InFiles \ (DOMAIN done \ DOMAIN call) \subseteq M
  BY <1>1 DEF SavedBut, Open
<1>7. InFiles \subseteq InFiles' \cup M
  BY <1>4, <1>6
<1>8. InFiles' \ (DOMAIN done' \ DOMAIN call') \subseteq M
  BY <1>3, <1>5, <1>6
<1> QED
  BY <1>1, <1>3, <1>7, <1>8, SavedFrame

LEMMA SavedCrash ==
  ASSUME TypeInv, FileInv, NEW M \in SUBSET Rows, SavedBut(M), Crash
  PROVE  SavedBut(M)'
<1>1. /\ pc \in {"start"} \cup Open /\ pc' = "start" /\ misread' = misread
      /\ DOMAIN call' = {}
      /\ \A r \in Rows \ InState("posted") : paid'[r] = paid[r]
  BY CrashIs DEF Open
<1>2. \A r \in Left(M) : r \in DOMAIN call' \/ paid'[r] > 0 =>
                           r \in DOMAIN call \/ paid[r] > 0
  BY <1>1 DEF InState, Left
<1>3. InFiles \subseteq InFiles' \cup M
  <2>1. CASE pc = "start"
    <3>1. files' = files
      BY <2>1, CrashIs
    <3> QED
      BY <3>1 DEF InFiles
  <2>2. CASE pc \in Open
    <3>1. InFiles \ (DOMAIN done \ DOMAIN call) \subseteq M
      BY <2>2 DEF SavedBut
    <3>2. \A r \in DOMAIN done \ DOMAIN call : r \in InFiles'
      BY <2>2, CrashKeeps
    <3> QED
      BY <3>1, <3>2
  <2> QED
    BY <1>1, <2>1, <2>2
<1> QED
  BY <1>1, <1>2, <1>3, SavedFrame DEF Open

LEMMA SavedStep == TypeInv /\ FileInv /\ SavedInv /\ [Next]_vars => SavedInv'
<1> SUFFICES ASSUME TypeInv, FileInv, SavedInv, [Next]_vars PROVE SavedInv'
  OBVIOUS
<1>1. PICK M \in SUBSET Rows : SavedBut(M)
  BY DEF SavedInv
<1>2. ASSUME NEW r \in Rows, BeginCall(r) PROVE SavedBut(M)'
  <2>1. r \in DOMAIN call /\ call' = [call EXCEPT ![r] = "posted"]
    BY <1>2 DEF BeginCall, InState
  <2>2. DOMAIN call' = DOMAIN call
    BY <2>1, OneCall DEF States
  <2> QED
    BY <1>1, <1>2, <2>2 DEF SavedBut, BeginCall, ghostVars, Left, InFiles, Early
<1>3. ASSUME NEW r \in Rows, NEW e \in Endings, EndCall(r, e) PROVE SavedBut(M)'
  <2>1. /\ DOMAIN call' = DOMAIN call /\ pc' \in {pc, "aborted"} /\ pc \in {"calls", "aborted"}
        /\ r \in DOMAIN call /\ \A q \in Rows : q # r => paid'[q] = paid[q]
    BY <1>3, EndIs DEF Billed
  <2>2. UNCHANGED <<done, files, misread>>
    BY <1>3 DEF EndCall
  <2>3. InFiles' = InFiles
    BY <2>2 DEF InFiles
  <2>4. pc' \in Open => InFiles' \ (DOMAIN done' \ DOMAIN call') \subseteq M
    BY <1>1, <2>1, <2>2, <2>3 DEF SavedBut, Open
  <2>5. \A q \in Left(M) : q \in DOMAIN call' \/ paid'[q] > 0 =>
                             q \in DOMAIN call \/ paid[q] > 0
    BY <2>1 DEF Left
  <2> QED
    BY <1>1, <2>1, <2>2, <2>3, <2>4, <2>5, SavedFrame
<1>4. ASSUME BatchDone PROVE SavedBut(M)'
  <2>1. /\ DOMAIN done' = DOMAIN done \cup DOMAIN call /\ pc = "calls"
        /\ UNCHANGED <<call, files, paid, misread>>
    BY <1>4 DEF BatchDone, ghostVars
  <2>2. /\ DOMAIN done' \ DOMAIN call = DOMAIN done \ DOMAIN call
        /\ InFiles' = InFiles /\ Left(M)' = Left(M)
    BY <2>1 DEF InFiles, Left
  <2>3. pc' \in Open => InFiles' \ (DOMAIN done' \ DOMAIN call') \subseteq M
    BY <1>1, <2>1, <2>2 DEF SavedBut, Open
  <2> QED
    BY <1>1, <2>1, <2>2, <2>3, SavedFrame
<1>5. ASSUME Commit PROVE SavedBut(M)'
  <2>1. UNCHANGED <<misread, paid, call, files>> /\ pc = "loop" /\ pc' = "committed"
    BY <1>5 DEF Commit, ghostVars
  <2>2. InFiles' = InFiles
    BY <2>1 DEF InFiles
  <2> QED
    BY <1>1, <2>1, <2>2, SavedFrame DEF Open
<1>6. ASSUME ClearCheckpoint PROVE SavedBut(M)'
  <2>1. misread' = misread /\ pc' = "cleared"
    BY <1>6 DEF ClearCheckpoint, ghostVars
  <2>2. pc' \notin Open
    BY <2>1 DEF Open
  <2> QED
    BY <1>1, <2>1, <2>2 DEF SavedBut
<1>7. ASSUME RequestCancel \/ UNCHANGED vars PROVE SavedBut(M)'
  <2>1. UNCHANGED <<misread, paid, done, call, pc, files>>
    BY <1>7 DEF RequestCancel, vars, stepVars, ghostVars
  <2>2. InFiles' = InFiles
    BY <2>1 DEF InFiles
  <2>3. pc' \in Open => InFiles' \ (DOMAIN done' \ DOMAIN call') \subseteq M
    BY <1>1, <2>1, <2>2 DEF SavedBut
  <2>4. pc = "cleared" => SavedBut(M)'
    BY <1>1, <2>1, <2>3 DEF SavedBut
  <2> QED
    BY <1>1, <2>1, <2>2, <2>3, <2>4, SavedFrame
<1>8. LoadCheckpoint \/ SavedBut(M)'
  <2>1. CASE StartBatch
    BY <1>1, <2>1, SavedBatch
  <2>2. CASE SaveCheckpoint
    BY <1>1, <2>2, SavedSave
  <2>3. CASE Crash
    BY <1>1, <2>3, SavedCrash
  <2> QED
    BY <1>2, <1>3, <1>4, <1>5, <1>6, <1>7, <2>1, <2>2, <2>3 DEF Next
<1> QED
  BY <1>8, SavedLoad DEF SavedInv

LEMMA LossIsBounded == TypeInv /\ DebtInv /\ SavedInv => LossWithinABatch
<1> SUFFICES ASSUME TypeInv, DebtInv, SavedInv PROVE LossWithinABatch
  OBVIOUS
<1> DEFINE again == [r \in Rows |-> IF paid[r] > 1 THEN paid[r] - 1 ELSE 0]
           few == CheckpointEvery * (attempt - 1) + misread
<1>1. SumFunction(again) =< few
  <2>1. again \in [Rows -> Nat] /\ Debt \in [Rows -> Nat]
    BY DEF Debt, Extra, TypeInv, TypeOK
  <2>2. Larger(Debt, again, {})
    <3> SUFFICES ASSUME NEW r \in Rows PROVE again[r] =< Debt[r]
      BY <2>1 DEF Larger
    <3>1. again[r] = Extra(r) /\ Debt[r] = Extra(r) + (IF Owed(r) THEN 1 ELSE 0)
      BY DEF Extra, Debt
    <3>2. Extra(r) \in Nat
      BY CostNat
    <3> QED
      BY <3>1, <3>2
  <2> HIDE DEF again
  <2>3. SumFunction(again) =< SumFunction(Debt) + Cardinality({})
    BY <2>1, <2>2, SumGrows
  <2>4. Cardinality({}) = 0 /\ SumFunction(again) \in Nat /\ SumFunction(Debt) \in Nat
    BY <2>1, <2>2, SumGrows, FS_EmptySet
  <2>5. few \in Nat /\ SumFunction(Debt) =< few
    BY SizeAssumption DEF DebtInv, TypeInv, TypeOK
  <2> HIDE DEF few
  <2> QED
    BY <2>3, <2>4, <2>5
<1>2. ASSUME pc # "cleared"
      PROVE  Cardinality({r \in Rows \ InFiles : paid[r] > 0}) =< CheckpointEvery + misread
  <2>1. PICK M \in SUBSET Rows : SavedBut(M)
    BY DEF SavedInv
  <2> DEFINE lost == {r \in Rows \ InFiles : paid[r] > 0}
             first == Early(Left(M))
  <2>2. lost \subseteq first \cup M
    BY <1>2, <2>1 DEF SavedBut, Left
  <2>3. first \in SUBSET Rows /\ Cardinality(first) =< CheckpointEvery
    <3>1. Left(M) \in SUBSET Rows
      BY DEF Left
    <3> QED
      BY <3>1, EarlyIsABatch
  <2>4. lost \in SUBSET Rows
    OBVIOUS
  <2> HIDE DEF lost, first
  <2>5. /\ IsFiniteSet(first) /\ IsFiniteSet(M) /\ first \cup M \in SUBSET Rows
        /\ first \cap M \in SUBSET Rows
    BY <2>3, RowsFinite
  <2>6. Cardinality(lost) =< Cardinality(first \cup M)
    BY <2>2, <2>5, RowsFinite, FS_Subset
  <2>7. Cardinality(first \cup M)
          = Cardinality(first) + Cardinality(M) - Cardinality(first \cap M)
    BY <2>5, FS_Union
  <2>8. /\ Cardinality(lost) \in Nat /\ Cardinality(first \cup M) \in Nat
        /\ Cardinality(first) \in Nat /\ Cardinality(M) \in Nat
        /\ Cardinality(first \cap M) \in Nat
    BY <2>3, <2>4, <2>5, RowsFinite
  <2>9. Cardinality(M) =< misread /\ misread \in Nat /\ CheckpointEvery \in Nat
    BY <2>1, SizeAssumption DEF SavedBut, TypeInv, TypeOK
  <2>10. Cardinality(lost) =< CheckpointEvery + misread
    BY <2>3, <2>6, <2>7, <2>8, <2>9
  <2> QED
    BY <2>10 DEF lost
<1> QED
  BY <1>1, <1>2 DEF LossWithinABatch

\* LossWithinABatch: a crash costs the calls of one batch and a file that cannot be
\* read costs its rows, for every number of rows, attempts and calls in flight and
\* every size of a batch; and what was paid for and is in no file stays within a batch
\* and such rows.
THEOREM CrashCostsABatch == Spec => []LossWithinABatch
<1> DEFINE Inv == FileInv /\ DebtInv /\ SavedInv
<1>1. Init => Inv
  BY FileStart, DebtStart, SavedStart
<1>2. TypeInv /\ Inv /\ [Next]_vars => Inv'
  BY FileStep, DebtSteps, SavedStep
<1>3. TypeInv /\ Inv => LossWithinABatch
  BY LossIsBounded
<1> HIDE DEF Inv
<1> QED
  BY TypeStart, TypeStep, <1>1, <1>2, <1>3, PTL DEF Spec
=============================================================================
