-------------------------------- MODULE Budget --------------------------------
(***************************************************************************)
(* What a blocking budget promises in one of its windows (ADR-0008 3): a   *)
(* call is admitted only if its worst case still fits beside everything    *)
(* spent and everything promised to calls that are under way.              *)
(***************************************************************************)
EXTENDS Naturals, FiniteSets

CONSTANTS Calls, Estimate, Limit

\* What the constants must be; MeshPipeline's own assumptions give it.
BudgetAssumption == IsFiniteSet(Calls) /\ Estimate \in Nat /\ Limit \in Nat

VARIABLES
  spent,     (* what calls of the window have cost                         *)
  promised   (* the admitted calls that have not ended                     *)

vars == <<spent, promised>>

Init == spent = 0 /\ promised = {}

\* One worst case more fits.
Fits == spent + Estimate * (Cardinality(promised) + 1) =< Limit

Admit(c) ==
  /\ c \notin promised
  /\ Fits
  /\ promised' = promised \cup {c}
  /\ UNCHANGED spent

\* The call ends and turns out to cost less or as much.
Close(c) ==
  /\ c \in promised
  /\ promised' = promised \ {c}
  /\ \E cost \in 0..Estimate : spent' = spent + cost

\* The promise to a call that crashed lapses.
Lapse(C) ==
  /\ C # {} /\ C \subseteq promised
  /\ promised' = promised \ C
  /\ UNCHANGED spent

NewWindow == spent' = 0 /\ promised' = {}

Next ==
  \/ \E c \in Calls : Admit(c) \/ Close(c)
  \/ \E C \in SUBSET Calls : Lapse(C)
  \/ NewWindow

Spec == Init /\ [][Next]_vars

\* What is spent and what is promised fit in the limit together (quotas.py,
\* the test that reserve makes before it inserts a hold).
Within == spent + Estimate * Cardinality(promised) =< Limit
=============================================================================
