--------------------------- MODULE MCOrphanPruner ----------------------------
(***************************************************************************)
(* The instance of OrphanPruner for TLC: one job that rebuilds A and then  *)
(* B from it.                                                              *)
(***************************************************************************)
EXTENDS OrphanPruner

CONSTANTS j1, A, B

SoloPlan == [j \in {j1} |-> <<A, B>>]
SoloRequested == [j \in {j1} |-> {B}]
SoloInputs == [d \in {A, B} |-> IF d = A THEN {} ELSE {A}]
=============================================================================
