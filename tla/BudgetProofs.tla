----------------------------- MODULE BudgetProofs -----------------------------
(***************************************************************************)
(* The abstract budget keeps its promise for every set of calls, estimate  *)
(* and limit.                                                              *)
(***************************************************************************)
EXTENDS Budget, FiniteSetTheorems, TLAPS

BudgetInv ==
  /\ spent \in Nat
  /\ promised \subseteq Calls
  /\ Within

\* What is promised is a finite set, and Estimate times its size a number.
LEMMA PromisedFinite ==
  ASSUME BudgetAssumption, NEW C, C \subseteq Calls
  PROVE  IsFiniteSet(C) /\ Cardinality(C) \in Nat
BY FS_Subset, FS_CardinalityType DEF BudgetAssumption

\* An admission leaves room for one worst case more, whatever it costs in the end.
LEMMA AdmitKeeps ==
  ASSUME BudgetAssumption, BudgetInv, NEW c \in Calls, Admit(c)
  PROVE  BudgetInv'
<1>1. IsFiniteSet(promised)
  BY PromisedFinite DEF BudgetInv
<1>2. Cardinality(promised') = Cardinality(promised) + 1
  BY <1>1, FS_AddElement DEF Admit
<1>3. QED
  BY <1>2 DEF BudgetInv, Within, Admit, Fits

\* A call that ends gives up Estimate and spends no more than that.
LEMMA CloseKeeps ==
  ASSUME BudgetAssumption, BudgetInv, NEW c \in Calls, Close(c)
  PROVE  BudgetInv'
<1>1. IsFiniteSet(promised) /\ Cardinality(promised) \in Nat
  BY PromisedFinite DEF BudgetInv
<1>2. /\ Cardinality(promised') = Cardinality(promised) - 1
      /\ Cardinality(promised') \in Nat
  <2>1. Cardinality(promised \ {c}) = Cardinality(promised) - 1
    BY <1>1, FS_RemoveElement DEF Close
  <2>2. promised \ {c} \subseteq Calls
    BY DEF BudgetInv
  <2>3. QED
    BY <2>1, <2>2, PromisedFinite DEF Close
<1>3. PICK cost \in 0..Estimate : spent' = spent + cost
  BY DEF Close
<1>4. Estimate * Cardinality(promised')
        = Estimate * Cardinality(promised) - Estimate
  <2> DEFINE n == Cardinality(promised)
             d == Cardinality(promised')
  <2>1. n = d + 1 /\ d \in Nat /\ Estimate \in Nat
    BY <1>1, <1>2 DEF BudgetAssumption
  <2>2. Estimate * (d + 1) = Estimate * d + Estimate
    <3> HIDE DEF n, d
    <3> QED BY <2>1
  <2>3. Estimate * d \in Nat
    <3> HIDE DEF n, d
    <3> QED BY <2>1
  <2>4. QED
    <3> HIDE DEF n, d
    <3>1. Estimate * n = Estimate * d + Estimate
      BY <2>1, <2>2
    <3>2. Estimate * d = Estimate * n - Estimate
      BY <3>1, <2>1, <2>3
    <3>3. QED BY <3>2 DEF n, d
<1>5. Estimate * Cardinality(promised) \in Nat
  BY <1>1 DEF BudgetAssumption
<1>6. spent' \in Nat /\ promised' \subseteq Calls
  BY <1>3 DEF BudgetAssumption, BudgetInv, Close
<1>7. Within'
  <2> DEFINE room == Estimate * Cardinality(promised)
             left == Estimate * Cardinality(promised')
  <2>1. left = room - Estimate /\ room \in Nat /\ Limit \in Nat /\ Estimate \in Nat
    BY <1>4, <1>5 DEF BudgetAssumption
  <2>2. spent + room =< Limit /\ spent \in Nat
    BY DEF BudgetInv, Within
  <2>3. cost \in Nat /\ cost =< Estimate
    BY DEF BudgetAssumption
  <2>4. spent' + left =< Limit
    <3> HIDE DEF room, left
    <3> QED BY <1>3, <2>1, <2>2, <2>3
  <2>5. QED
    BY <2>4 DEF Within
<1>8. QED
  BY <1>6, <1>7 DEF BudgetInv

\* Holds that lapse only make room.
LEMMA LapseKeeps ==
  ASSUME BudgetAssumption, BudgetInv, NEW C \in SUBSET Calls, Lapse(C)
  PROVE  BudgetInv'
<1>1. IsFiniteSet(promised) /\ Cardinality(promised) \in Nat
  BY PromisedFinite DEF BudgetInv
<1>2. /\ promised' \subseteq Calls
      /\ Cardinality(promised') \in Nat
      /\ Cardinality(promised') =< Cardinality(promised)
  <2>1. promised' \subseteq promised /\ promised' \subseteq Calls
    BY DEF Lapse, BudgetInv
  <2>2. QED
    BY <1>1, <2>1, FS_Subset, FS_CardinalityType
<1>3. /\ Estimate * Cardinality(promised') =< Estimate * Cardinality(promised)
      /\ Estimate * Cardinality(promised') \in Nat
      /\ Estimate * Cardinality(promised) \in Nat
  <2> DEFINE n == Cardinality(promised)
             d == Cardinality(promised')
  <2>1. n \in Nat /\ d \in Nat /\ d =< n /\ Estimate \in Nat
    BY <1>1, <1>2 DEF BudgetAssumption
  <2>2. PICK e \in Nat : n = d + e
    <3> HIDE DEF n, d
    <3>1. n - d \in Nat /\ n = d + (n - d)
      BY <2>1
    <3> QED BY <3>1
  <2>3. Estimate * n = Estimate * d + Estimate * e
    <3> HIDE DEF n, d
    <3> QED BY <2>1, <2>2
  <2>4. Estimate * d \in Nat /\ Estimate * e \in Nat
    <3> HIDE DEF n, d
    <3> QED BY <2>1, <2>2
  <2>5. Estimate * d =< Estimate * n /\ Estimate * d \in Nat /\ Estimate * n \in Nat
    <3> HIDE DEF n, d
    <3> QED BY <2>3, <2>4
  <2>6. QED
    BY <2>5
<1>4. QED
  BY <1>2, <1>3 DEF BudgetAssumption, BudgetInv, Within, Lapse

\* A new window starts with nothing spent and nothing promised.
LEMMA NewWindowKeeps ==
  ASSUME BudgetAssumption, BudgetInv, NewWindow
  PROVE  BudgetInv'
BY FS_EmptySet DEF BudgetAssumption, BudgetInv, Within, NewWindow

LEMMA BudgetInvInductive ==
  ASSUME BudgetAssumption, BudgetInv, [Next]_vars
  PROVE  BudgetInv'
<1>1. CASE Next
  BY <1>1, AdmitKeeps, CloseKeeps, LapseKeeps, NewWindowKeeps DEF Next
<1>2. CASE UNCHANGED vars
  BY <1>2 DEF vars, BudgetInv, Within
<1>3. QED
  BY <1>1, <1>2

\* For any calls, estimate and limit: what a window has spent and what it has
\* promised never exceed the limit together (quotas.py, the admission test of reserve).
THEOREM WithinAlways ==
  ASSUME BudgetAssumption
  PROVE  Spec => []Within
<1>1. Init => BudgetInv
  BY FS_EmptySet DEF BudgetAssumption, Init, BudgetInv, Within
<1>2. BudgetInv /\ [Next]_vars => BudgetInv'
  BY BudgetInvInductive
<1>3. BudgetInv => Within
  BY DEF BudgetInv
<1>4. QED
  BY <1>1, <1>2, <1>3, PTL DEF Spec
=============================================================================
