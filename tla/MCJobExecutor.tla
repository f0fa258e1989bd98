---------------------------- MODULE MCJobExecutor ----------------------------
(***************************************************************************)
(* Instances of JobExecutor for TLC.                                       *)
(***************************************************************************)
EXTENDS JobExecutor

CONSTANTS j1, j2, A, B, C

\* B is built from A; j1 builds both, j2 builds C from B.
ChainInputs == [d \in {A, B, C} |-> IF d = A THEN {} ELSE IF d = B THEN {A} ELSE {B}]
ChainPlan == [j \in {j1, j2} |-> IF j = j1 THEN <<A, B>> ELSE <<C>>]
ChainRequested == [j \in {j1, j2} |-> IF j = j1 THEN {B} ELSE {C}]

\* j1 builds A; j2 rebuilds A and then C from it.
ForkInputs == [d \in {A, B, C} |-> IF d = A THEN {} ELSE {A}]
ForkPlan == [j \in {j1, j2} |-> IF j = j1 THEN <<A>> ELSE <<A, C>>]
ForkRequested == [j \in {j1, j2} |-> IF j = j1 THEN {A} ELSE {C}]

\* One job that rebuilds A and then B from it.
SoloPlan == [j \in {j1} |-> <<A, B>>]
SoloRequested == [j \in {j1} |-> {B}]
SoloInputs == [d \in {A, B} |-> IF d = A THEN {} ELSE {A}]
=============================================================================
