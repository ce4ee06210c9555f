---------------------------- MODULE MCGraphRunner ----------------------------
(***************************************************************************)
(* Small compiled graphs for TLC.                                          *)
(***************************************************************************)
EXTENDS GraphRunner

MCNodeID == 1..5   \* 5 is registered nowhere: only a router can name it

NoEdges == [n \in MCNodeID |-> {}]

Base ==
  [ nodes |-> 1..4, edges |-> NoEdges, conds |-> {}, fans |-> {},
    terminal |-> {}, entry |-> 1,
    recursionLimit |-> 4, maxParallel |-> 2, checkpointInterval |-> 1,
    checkpointer |-> TRUE, maxHistory |-> 0, handler |-> FALSE ]

(* 1 -> {2, 3}, and only 2 goes on, to 4: a super-step of two branches of  *)
(* different lengths.                                                      *)
Diamond ==
  [ Base EXCEPT !.edges = [NoEdges EXCEPT ![1] = {2, 3}, ![2] = {4}],
                !.terminal = {3, 4} ]

(* 1 -> {2, 3} -> 4: two branches that name the same successor.            *)
Join ==
  [ Base EXCEPT !.edges = [NoEdges EXCEPT ![1] = {2, 3}, ![2] = {4},
                                          ![3] = {4}],
                !.terminal = {4} ]

(* 1 <-> 2, left through 2's router, under a limit it can exceed.          *)
Loop ==
  [ Base EXCEPT !.nodes = {1, 2}, !.edges = [NoEdges EXCEPT ![1] = {2}],
                !.conds = {2}, !.recursionLimit = 3 ]

(* A fan-out over any of three workers, all terminal.                      *)
Fan ==
  [ Base EXCEPT !.fans = {1}, !.terminal = {2, 3, 4},
                !.recursionLimit = 2 ]

MCRunners ==
  { [Diamond EXCEPT !.handler = TRUE],
    [Diamond EXCEPT !.maxParallel = 1, !.checkpointInterval = 2],
    [Join EXCEPT !.maxHistory = 1],
    [Join EXCEPT !.handler = TRUE, !.checkpointer = FALSE],
    [Loop EXCEPT !.maxHistory = 1, !.checkpointInterval = 2],
    [Loop EXCEPT !.maxHistory = 2, !.handler = TRUE],
    [Fan EXCEPT !.maxParallel = 3] }

(* 3 waits for a cancellation: in a group that fails fast, behind a single *)
(* slot, under a handler, and not at all.                                  *)
MCWaiters == {3}

MCLiveRunners ==
  { Diamond,
    [Diamond EXCEPT !.maxParallel = 1],
    [Join EXCEPT !.handler = TRUE],
    [Fan EXCEPT !.checkpointer = FALSE],
    [Loop EXCEPT !.maxHistory = 1] }

(* The configurations of the two disagreements.                            *)
MCResumeRunners == {Diamond}
MCDeadEndRunners == {[Loop EXCEPT !.handler = TRUE]}
=============================================================================
