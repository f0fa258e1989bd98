--------------------------- MODULE MCMeshPipeline ----------------------------
(***************************************************************************)
(* Instances of MeshPipeline for TLC.  Scope 1 is a project, 2 and 3 are   *)
(* connections.                                                            *)
(***************************************************************************)
EXTENDS MeshPipeline

CONSTANTS k

TwoTicks == [day |-> 2, month |-> 4]
OneDay == [day |-> 2]

Quota(scope, period, action, cost, calls) ==
  [scope |-> scope, period |-> period, action |-> action, cost |-> cost, calls |-> calls]

OneBlock == {Quota(1, "day", "block", 3, None)}
OneWarn == {Quota(1, "day", "warn", 3, None)}
ThreeBudgets == {Quota(1, "day", "block", 3, None), Quota(1, "month", "block", None, 2),
                 Quota(2, "day", "warn", 3, None)}

SameScope == [c \in Calls |-> {1}]
BothScopes == [c \in Calls |-> {1, 2}]
\* One call uses a connection without budgets.
TwoConnections == [c \in Calls |-> IF c = CHOOSE b \in Calls : TRUE THEN {1, 3} ELSE {1, 2}]
SameKey == [c \in Calls |-> k]

\* Where no window rolls over a call and no call settles between the two sums of
\* another, the reservations implement the abstract budget (ADR-0008 3).
Tight == Quota(1, "day", "block", 3, None)
TightBudget == INSTANCE Budget WITH
  Limit <- Tight.cost, spent <- SpentIn(Tight), promised <- Promised(Tight)
ImplementsBudget == TightBudget!Spec
=============================================================================
