---------------------------- MODULE GraphTopology ----------------------------
(***************************************************************************)
(* The topology of a compiled graph and the frontier it leads to           *)
(* (pkg/graph/graph.go, pkg/graph/runner.go).                              *)
(*                                                                         *)
(* A node ID is a positive natural number: the code compares IDs with < to *)
(* order the fan-in, and the zero ID ("no node") never enters a frontier.  *)
(* A frontier is a set: nextFrontier drops the empty ID and duplicates,    *)
(* and the order it leaves only decides which goroutine is launched first, *)
(* which GraphRunner leaves open.                                          *)
(***************************************************************************)
EXTENDS Naturals, FiniteSets

CONSTANT NodeID   \* every ID a node, an edge or a router may name

ASSUME NodeIDAssumption ==
  /\ NodeID \subseteq Nat \ {0}
  /\ IsFiniteSet(NodeID)

(***************************************************************************)
(* A compiled Runner.  edges[n] = {} is a missing map entry; conds and     *)
(* fans are the domains of the two router maps, whose functions are the    *)
(* caller's and may name any ID.                                           *)
(***************************************************************************)
Runner ==
  [ nodes    : SUBSET NodeID,
    edges    : [NodeID -> SUBSET NodeID],
    conds    : SUBSET NodeID,
    fans     : SUBSET NodeID,
    terminal : SUBSET NodeID,
    entry    : NodeID,
    recursionLimit     : Nat \ {0},
    maxParallel        : Nat \ {0},
    checkpointInterval : Nat \ {0},
    checkpointer       : BOOLEAN,
    maxHistory         : Nat,       \* of the MemoryCheckpointer, 0 = unbounded
    handler            : BOOLEAN ]  \* a NodeErrorHandler is configured

(* What running a Runner relies on Compile for: static edges stay among    *)
(* the registered nodes.                                                   *)
StaticallyClosed(r) ==
  /\ r.entry \in r.nodes
  /\ \A n \in NodeID : r.edges[n] \subseteq r.nodes

(* The four ways nextFrontier may leave a node, in the order it tries them. *)
Ends(g, n)   == n \in g.terminal
Static(g, n) == ~Ends(g, n) /\ g.edges[n] # {}
Conds(g, f)  == { n \in f : ~Ends(g, n) /\ ~Static(g, n) /\ n \in g.conds }
Fans(g, f)   == { n \in f : /\ ~Ends(g, n) /\ ~Static(g, n)
                            /\ n \in g.fans \ g.conds }

(* None of the four: the branch nextFrontier ends "defensively".           *)
DeadEnd(g, n) ==
  ~Ends(g, n) /\ ~Static(g, n) /\ n \notin g.conds \cup g.fans

(* What the static edges of a frontier lead to, duplicates removed.        *)
FollowUntilTerminal(g, f) ==
  IF \E n \in f : Ends(g, n) THEN {} ELSE UNION { g.edges[n] : n \in f }

Follow(g, f) == UNION { g.edges[n] : n \in { m \in f : Static(g, m) } }

(* A Router names at most one ID, a FanRouter any set of them; either may  *)
(* name an ID no node is registered under.                                 *)
RoutedToNothing(g, f) ==
  { S \in SUBSET (NodeID \cup {0}) :
      Fans(g, f) = {} => Cardinality(S) <= Cardinality(Conds(g, f)) }

Routed(g, f) ==
  { S \in SUBSET NodeID :
      Fans(g, f) = {} => Cardinality(S) <= Cardinality(Conds(g, f)) }

NextFrontiers(g, f) == { Follow(g, f) \cup S : S \in Routed(g, f) }

CallsRouter(g, f) == Conds(g, f) \cup Fans(g, f) # {}
=============================================================================
