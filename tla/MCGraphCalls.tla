----------------------------- MODULE MCGraphCalls -----------------------------
(***************************************************************************)
(* Small graphs and pairs of calls for TLC.                                *)
(***************************************************************************)
EXTENDS GraphCalls

CONSTANTS a, b, t, u

MCNodeID == 1..3
MCCaller == {a, b}
MCThread == {t, u}

NoEdges == [n \in MCNodeID |-> {}]

(* 1 -> {2, 3}, both terminal.                                             *)
Fork ==
  [ nodes |-> 1..3, edges |-> [NoEdges EXCEPT ![1] = {2, 3}],
    conds |-> {}, fans |-> {}, terminal |-> {2, 3}, entry |-> 1,
    recursionLimit |-> 3, maxParallel |-> 2, checkpointInterval |-> 1,
    checkpointer |-> TRUE, maxHistory |-> 0, handler |-> FALSE ]

(* 1 <-> 2, left through 2's router, under a limit it can exceed.          *)
Loop ==
  [Fork EXCEPT !.edges = [NoEdges EXCEPT ![1] = {2}], !.nodes = {1, 2},
               !.conds = {2}, !.terminal = {}, !.recursionLimit = 2]

MCRunners ==
  { Fork,
    [Fork EXCEPT !.checkpointer = FALSE],
    [Loop EXCEPT !.maxHistory = 1],
    [Loop EXCEPT !.checkpointInterval = 2] }

On(kind, thread) == [kind |-> kind, thread |-> thread]

(* Two runs of one thread, a run and a Resume racing it, and a stream      *)
(* beside a run.                                                           *)
MCPlans ==
  { (a :> On("run", t)) @@ (b :> On(kind, t)) : kind \in {"run", "resume"} }
  \cup { (a :> On("stream", t)) @@ (b :> On("run", u)) }
=============================================================================
