---------------------------- MODULE VersionStore -----------------------------
(***************************************************************************)
(* What readers of a dataset are promised: an append-only list of readable *)
(* versions.  The sample endpoint, a downstream build and a rollback all   *)
(* read version v of d and rely on getting the same data every time.       *)
(***************************************************************************)
EXTENDS Naturals, Sequences

CONSTANTS Datasets, Missing

VARIABLE store   \* store[d][v]: the data behind version v of dataset d

Init == store = [d \in Datasets |-> <<>>]

Publish(d) ==
  LET n == Len(store[d]) IN
  /\ Len(store'[d]) = n + 1
  /\ \A v \in 1..n : store'[d][v] = store[d][v]
  /\ store'[d][n + 1] # Missing
  /\ \A e \in Datasets \ {d} : store'[e] = store[e]

Next == \E d \in Datasets : Publish(d)

Spec == Init /\ [][Next]_store
=============================================================================
