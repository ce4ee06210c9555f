------------------------------- MODULE MCMapNode -------------------------------
(***************************************************************************)
(* Three MapNodes for TLC.                                                 *)
(***************************************************************************)
EXTENDS MapNode

CONSTANTS a, b, c

MCNode == {a, b, c}

Each(x, y, z) == (a :> x) @@ (b :> y) @@ (c :> z)

(* The test's shape: equal limits, and one node more than slots.           *)
EqualLimits ==
  [ payloads |-> Each(2, 3, 1), parallel |-> Each(2, 2, 2), waiters |-> {},
    maxParallel |-> 2, handler |-> FALSE ]

(* Without limits, with one slot for all, with empty nodes, and with       *)
(* payloads that only a cancellation ends.                                 *)
MCSetups ==
  { EqualLimits,
    [EqualLimits EXCEPT !.payloads = Each(2, 2, 0),
                        !.parallel = Each(0, 1, 0), !.maxParallel = 1],
    [EqualLimits EXCEPT !.payloads = Each(0, 2, 1), !.maxParallel = 3,
                        !.handler = TRUE],
    [EqualLimits EXCEPT !.payloads = Each(2, 2, 0),
                        !.parallel = Each(1, 0, 0),
                        !.waiters = {<<a, 2>>, <<b, 1>>}],
    [EqualLimits EXCEPT !.payloads = Each(1, 2, 1), !.handler = TRUE,
                        !.waiters = {<<b, 1>>, <<b, 2>>}] }
=============================================================================
