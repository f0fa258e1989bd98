---------------------------- MODULE MCFlowGraph -----------------------------
(***************************************************************************)
(* Constants of FlowGraph for TLC.  Three kinds of behaviour: requests one *)
(* after the other that rewire a loop of recipes, or that rewire and       *)
(* relabel a diamond, and saves, archives, edits, uploads and builds that  *)
(* overlap on a diamond whose wiring no longer changes once it is built.   *)
(***************************************************************************)
EXTENDS FlowGraph

CONSTANTS a, b, c

\* A chain with a second input, and the two recipes that close a loop.
ChainWirings == {<<<<a>>, <<b>>>>, <<<<a, b>>, <<c>>>>, <<<<c>>, <<b>>>>}

\* A dataset and one computed from it and its own input.
DiamondWirings == {<<<<a>>, <<b>>>>, <<<<a, b>>, <<c>>>>}

\* All of a wiring, or a part of it.
Whole == {"ins", "outs"}
Parts == {{"ins"}, {"outs"}, Whole}

CalmLoop ==
  [wirings |-> ChainWirings, given |-> Parts, topLabel |-> 0,
   overlap |-> FALSE, mayRewire |-> TRUE, mayLower |-> FALSE]
CalmLabels ==
  [wirings |-> DiamondWirings, given |-> {Whole}, topLabel |-> 1,
   overlap |-> FALSE, mayRewire |-> TRUE, mayLower |-> FALSE]
Overlapping ==
  [wirings |-> DiamondWirings, given |-> {Whole}, topLabel |-> 0,
   overlap |-> TRUE, mayRewire |-> FALSE, mayLower |-> FALSE]
CalmOrOverlap == {CalmLoop, CalmLabels, Overlapping}
=============================================================================
