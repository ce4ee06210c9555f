----------------------------- MODULE MCAgentLoop ------------------------------
(***************************************************************************)
(* Small agents for TLC: an ordinary tool, a terminal one, and small       *)
(* budgets.                                                                *)
(***************************************************************************)
EXTENDS AgentLoop

CONSTANTS lookup, submit

MCToolName == {lookup, submit}
MCTerminal == {submit}

Unlimited ==
  [maxTurns |-> 2, maxInput |-> 0, maxOutput |-> 0, maxTotal |-> 0, reserve |-> 0]

(* Budgets with and without a reserve, one larger than its cap, one        *)
(* negative; the last request leaves the turn limit to its default.        *)
MCRequests ==
  { Unlimited,
    [Unlimited EXCEPT !.maxTotal = 5, !.reserve = 2],
    [Unlimited EXCEPT !.maxOutput = 2, !.reserve = 1],
    [Unlimited EXCEPT !.maxInput = 3, !.reserve = 3],
    [Unlimited EXCEPT !.maxTotal = 2, !.reserve = 3],
    [Unlimited EXCEPT !.maxTotal = 3, !.reserve = -1],
    [Unlimited EXCEPT !.maxTurns = 0, !.maxTotal = 6, !.reserve = 1] }

MCUsages == { [input |-> 1, output |-> 1], [input |-> 2, output |-> 0] }
=============================================================================
