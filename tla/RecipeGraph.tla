----------------------------- MODULE RecipeGraph ------------------------------
(***************************************************************************)
(* The recipe DAG of a project and the pure functions over it: the walk    *)
(* behind the cycle check (recipes_service.py), the upstream closure and   *)
(* the topological order of a build (build_service.py).                    *)
(*                                                                         *)
(* A graph g has the recipes g.recipes (natural numbers, for the tie-break *)
(* by id) with their inputs g.ins[r] and outputs g.outs[r], sequences of   *)
(* datasets in ordinal order.                                              *)
(***************************************************************************)
EXTENDS Naturals, Sequences, FiniteSets, SequencesExt

Ins(g, r) == ToSet(g.ins[r])
Outs(g, r) == ToSet(g.outs[r])

\* graph.producer: dataset -> recipe, for the datasets that have one.
Producers(g, d) == {r \in g.recipes : d \in Outs(g, r)}

UpstreamOf(g, r) == UNION {Producers(g, d) : d \in Ins(g, r)}

\* The recipes transitively upstream of R, R included.
UpstreamClosure(g, R) ==
  LET up[n \in Nat] ==
        IF n = 0 THEN R
        ELSE up[n - 1] \cup UNION {UpstreamOf(g, r) : r \in up[n - 1]}
  IN  up[Cardinality(g.recipes)]

\* The datasets a walk from the datasets D back through producers reaches.
UpstreamDatasets(g, D) ==
  LET up[n \in Nat] ==
        IF n = 0 THEN D
        ELSE up[n - 1] \cup UNION {Ins(g, r) : r \in UNION {Producers(g, d) : d \in up[n - 1]}}
  IN  up[Cardinality(g.recipes)]

\* g with recipe r wired ins -> outs.
Overlay(g, r, ins, outs) ==
  [recipes |-> g.recipes \cup {r},
   ins  |-> [q \in g.recipes \cup {r} |-> IF q = r THEN ins ELSE g.ins[q]],
   outs |-> [q \in g.recipes \cup {r} |-> IF q = r THEN outs ELSE g.outs[q]]]

DirectCycleOnly(g, r, ins, outs) == ToSet(ins) \cap ToSet(outs) # {}
WouldCreateCycle(g, r, ins, outs) ==
  UpstreamDatasets(Overlay(g, r, ins, outs), ToSet(ins)) \cap ToSet(outs) # {}

ById(S) ==
  CHOOSE s \in [1..Cardinality(S) -> S] :
    \A i, j \in 1..Cardinality(S) : i < j => s[i] < s[j]

Dependencies(g, r, C) == UpstreamOf(g, r) \cap C

\* Kahn's algorithm in rounds: each round appends, by id, the recipes all of
\* whose dependencies are in earlier rounds.
TopoOrder(g, C) ==
  LET Ready(done) == {r \in C \ done : Dependencies(g, r, C) \subseteq done}
      order[n \in Nat] ==
        IF n = 0 THEN <<>>
        ELSE order[n - 1] \o ById(Ready(ToSet(order[n - 1])))
  IN  order[Cardinality(C)]

\* The 422 of _topo_order: a round with nothing ready.
Cyclic(g, C) == Len(TopoOrder(g, C)) < Cardinality(C)

=============================================================================
