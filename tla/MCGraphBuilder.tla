--------------------------- MODULE MCGraphBuilder ----------------------------
(***************************************************************************)
(* Builders of up to three nodes for TLC.                                  *)
(***************************************************************************)
EXTENDS GraphBuilder

MCNodeID == 1..3

(* A new builder, with and without a reducer, and chains that have already *)
(* registered their nodes, set their entry and added some edges.           *)
TwoNodes == [NewBuilder(TRUE) EXCEPT !.order = <<2, 1>>, !.entry = 2]

ThreeNodes ==
  [ NewBuilder(TRUE) EXCEPT !.order = <<1, 3, 2>>, !.entry = 1,
                            !.terminal = {3}, !.edges[1] = <<2>> ]

MCStarts ==
  { NewBuilder(TRUE), NewBuilder(FALSE), TwoNodes, ThreeNodes,
    [ThreeNodes EXCEPT !.edges[2] = <<3>>] }

Plain ==
  [ recursionLimit |-> 3, maxParallel |-> 2, checkpointInterval |-> 2,
    cloner |-> "none", checkpointer |-> "match", nodeErrorHandler |-> "none",
    maxHistory |-> 1 ]

MCOptions ==
  { Plain,
    [Plain EXCEPT !.recursionLimit = 0, !.maxParallel = 0,
                  !.checkpointInterval = 0, !.nodeErrorHandler = "match"],
    [Plain EXCEPT !.cloner = "mismatch"] }
=============================================================================
