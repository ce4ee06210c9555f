---------------------------- MODULE GraphBuilder -----------------------------
(***************************************************************************)
(* The Builder's fluent calls and Compile (pkg/graph/graph.go,             *)
(* pkg/graph/compile.go).  Every call holds the Builder's mutex from end   *)
(* to end, so a call is one step.                                          *)
(*                                                                         *)
(* 0 stands for the empty ID, which any call may be handed by mistake.     *)
(* Static edges are sequences here: AddEdge may record an edge twice, and  *)
(* isAcyclic counts it twice.                                              *)
(***************************************************************************)
EXTENDS GraphTopology, Integers, SequencesExt

CONSTANTS
  Starts,     \* the builders a chain of calls is taken up from
  Options,    \* what Compile's Options may ask for
  MaxProcs,   \* runtime.GOMAXPROCS(0)
  MaxCalls    \* bound: builder calls before Compile

ID == NodeID \cup {0}

Builder ==
  [ order    : { s \in Seq(NodeID) : IsInjective(s) },  \* as registered
    edges    : [ID -> Seq(ID)],
    conds    : SUBSET ID,
    fans     : SUBSET ID,
    terminal : SUBSET ID,
    entry    : ID,
    reducer  : BOOLEAN,
    errs     : Seq({"compile", "duplicate"}) ]

(* An option carrying a type: absent, of this graph's type, or another's.  *)
Typed == {"none", "match", "mismatch"}

Option ==
  [ recursionLimit : Int, maxParallel : Int, checkpointInterval : Int,
    cloner : Typed, checkpointer : Typed, nodeErrorHandler : Typed,
    maxHistory : Nat ]

ASSUME BuilderAssumption ==
  /\ Starts \subseteq Builder
  /\ Options \subseteq Option
  /\ MaxProcs \in Nat \ {0}
  /\ MaxCalls \in Nat

NewBuilder(reducer) ==
  [ order |-> <<>>, edges |-> [n \in ID |-> <<>>], conds |-> {}, fans |-> {},
    terminal |-> {}, entry |-> 0, reducer |-> reducer, errs |-> <<>> ]

Nodes(b) == ToSet(b.order)
Targets(b, n) == ToSet(b.edges[n])

-----------------------------------------------------------------------------
(* The recorded edges by owner and place: one recorded twice is two.       *)
Edges(b) == UNION { {n} \X DOMAIN b.edges[n] : n \in ID }
Target(b, e) == b.edges[e[1]][e[2]]

(* reachableSet: a depth-first walk over static edges, the stack's top     *)
(* last.  Every turn of the loop pops, and pushes at most the edges of one *)
(* node not visited yet, so Turns(b) of them empty the stack.              *)
Turns(b) == 1 + Cardinality(Edges(b))

Pushed(stack, targets, seen) ==
  LET Push(s, to) == IF to \in seen THEN s ELSE Append(s, to)
  IN FoldLeft(Push, stack, targets)

WalkTurn(b, w) ==
  LET id == Last(w.stack)
      seen == w.visited \cup {id}
  IN CASE w.stack = <<>> -> w
       [] w.stack # <<>> /\ id \in w.visited -> [w EXCEPT !.stack = Front(@)]
       [] OTHER -> [ visited |-> seen,
                     stack |-> Pushed(Front(w.stack), b.edges[id], seen) ]

Walk(b) ==
  LET walk[k \in 0..Turns(b)] ==
        IF k = 0 THEN [visited |-> {}, stack |-> <<b.entry>>]
                 ELSE WalkTurn(b, walk[k - 1])
  IN walk[Turns(b)].visited

ReachableIfAnyRouter(b) ==
  IF b.conds \cup b.fans # {} THEN Walk(b) \cup Nodes(b) ELSE Walk(b)

ReachableSet(b) ==
  LET visited == Walk(b)
  IN IF visited \cap (b.conds \cup b.fans) # {}
     THEN visited \cup Nodes(b) ELSE visited

(* isAcyclic: Kahn's algorithm.  kahn[k] is its state after k removals.    *)
IndegreeOfPairs(b) ==
  [ n \in Nodes(b) |-> Cardinality({ m \in ID : n \in Targets(b, m) }) ]

Indegree(b) ==
  [ n \in Nodes(b) |-> Cardinality({ e \in Edges(b) : Target(b, e) = n }) ]

Sorted(S) ==
  CHOOSE q \in [1..Cardinality(S) -> S] :
    ToSet(q) = S /\ \A i, j \in DOMAIN q : i < j => q[i] < q[j]

Relax(s, to) ==
  LET d == s.indeg[to] - 1
  IN [ indeg |-> [s.indeg EXCEPT ![to] = d],
       queue |-> IF d = 0 THEN Append(s.queue, to) ELSE s.queue ]

Removal(b, s) ==
  LET t == FoldLeft(Relax, [indeg |-> s.indeg, queue |-> Tail(s.queue)],
                    b.edges[Head(s.queue)])
  IN IF s.queue = <<>> THEN s
     ELSE [indeg |-> t.indeg, queue |-> t.queue, removed |-> s.removed + 1]

IsAcyclic(b) ==
  LET roots == { n \in Nodes(b) : Indegree(b)[n] = 0 }
      kahn[k \in 0..Len(b.order)] ==
        IF k = 0
        THEN [indeg |-> Indegree(b), queue |-> Sorted(roots), removed |-> 0]
        ELSE Removal(b, kahn[k - 1])
  IN kahn[Len(b.order)].removed = Len(b.order)

-----------------------------------------------------------------------------
(* Compile's checks, in its order.  A check that ranges over a Go map may  *)
(* report any of its offenders; one that ranges over b.order, the first.   *)
Error(kind, at) == [kind |-> kind, at |-> at]
NotFound(ids) == { Error("notfound", {n}) : n \in ids }

Routered(b) == b.conds \cup b.fans

EdgeFaultsBesideRouters(b) ==
  LET owners == { n \in ID : b.edges[n] # <<>> }
  IN NotFound(owners \ Nodes(b))
       \cup { Error("dangling", {n}) :
                n \in { m \in owners : ~(Targets(b, m) \subseteq Nodes(b)) } }

EdgeFaults(b) ==
  LET owners == { n \in ID : b.edges[n] # <<>> }
      Fault(n) ==
        IF n \notin Nodes(b) THEN "notfound"
        ELSE IF ~(Targets(b, n) \subseteq Nodes(b)) THEN "dangling"
        ELSE IF n \in Routered(b) THEN "conflict" ELSE "none"
  IN { Error(Fault(n), {n}) : n \in { m \in owners : Fault(m) # "none" } }

CondFaults(b) ==
  NotFound(b.conds \ Nodes(b))
    \cup { Error("conflict", {n}) : n \in b.conds \cap b.fans \cap Nodes(b) }

DeadEnds(b) ==
  { n \in Nodes(b) \ (b.terminal \cup Routered(b)) : b.edges[n] = <<>> }

FirstDeadEnd(b) ==
  LET dead == { i \in DOMAIN b.order : b.order[i] \in DeadEnds(b) }
  IN IF dead = {} THEN {} ELSE {Error("deadend", {b.order[Min(dead)]})}

Unreachable(b) ==
  LET missed == Nodes(b) \ ReachableSet(b)
  IN IF missed = {} THEN {} ELSE {Error("unreachable", missed)}

Checks(b) ==
  << IF b.errs = <<>> THEN {} ELSE {Error(Head(b.errs), {})},
     IF b.reducer THEN {} ELSE {Error("noreducer", {})},
     IF b.entry = 0 THEN {Error("noentry", {})} ELSE {},
     NotFound({b.entry} \ Nodes(b)),
     NotFound(b.terminal \ Nodes(b)),
     EdgeFaults(b), CondFaults(b), NotFound(b.fans \ Nodes(b)),
     FirstDeadEnd(b), Unreachable(b) >>

(* What the first check that fails may report.                             *)
Rejections(b) ==
  LET checks == Checks(b)
  IN UNION { checks[i] : i \in
       { j \in DOMAIN checks : \A k \in 1..(j - 1) : checks[k] = {} } }

Passes(b) ==
  LET checks == Checks(b) IN \A i \in DOMAIN checks : checks[i] = {}

OrDefault(n, default) == IF n < 1 THEN default ELSE n

CompiledRunner(b, o) ==
  [ nodes    |-> Nodes(b),
    edges    |-> [n \in NodeID |-> Targets(b, n)],
    conds    |-> b.conds,
    fans     |-> b.fans,
    terminal |-> b.terminal,
    entry    |-> b.entry,
    recursionLimit     |-> OrDefault(o.recursionLimit, 25),
    maxParallel        |-> OrDefault(o.maxParallel, MaxProcs),
    checkpointInterval |-> OrDefault(o.checkpointInterval, 1),
    checkpointer       |-> o.checkpointer = "match",
    maxHistory         |-> o.maxHistory,
    handler            |-> o.nodeErrorHandler = "match" ]

TypesMatch(o) ==
  "mismatch" \notin {o.cloner, o.checkpointer, o.nodeErrorHandler}

-----------------------------------------------------------------------------
VARIABLES
  b,          \* the Builder
  calls,      \* builder calls made
  compiled,   \* the Runner Compile returned, if it did
  rejected    \* the error Compile returned, if it did

vars == <<b, calls, compiled, rejected>>

Init ==
  /\ b \in Starts
  /\ calls = 0
  /\ compiled = {}
  /\ rejected = {}

Called(result) ==
  /\ compiled \cup rejected = {}
  /\ calls < MaxCalls
  /\ calls' = calls + 1
  /\ b' = result
  /\ UNCHANGED <<compiled, rejected>>

Refused(kind) == [b EXCEPT !.errs = Append(@, kind)]

AddNodeUnchecked(id, isNil) ==
  Called(IF isNil THEN Refused("compile")
         ELSE IF id \in Nodes(b) THEN Refused("duplicate")
         ELSE [b EXCEPT !.order = Append(@, id)])

AddNode(id, isNil) ==
  Called(IF id = 0 \/ isNil THEN Refused("compile")
         ELSE IF id \in Nodes(b) THEN Refused("duplicate")
         ELSE [b EXCEPT !.order = Append(@, id)])

AddEdge(from, to) == Called([b EXCEPT !.edges[from] = Append(@, to)])

AddConditionalEdge(from) ==
  Called(IF from \in b.conds THEN Refused("compile")
         ELSE [b EXCEPT !.conds = @ \cup {from}])

AddFanEdge(from) ==
  Called(IF from \in b.fans THEN Refused("compile")
         ELSE [b EXCEPT !.fans = @ \cup {from}])

SetEntryPoint(id) == Called([b EXCEPT !.entry = id])

SetTerminal(ids) == Called([b EXCEPT !.terminal = @ \cup ids])

(* The chain ends in Compile: a Runner, or one error.                      *)
Compile(o) ==
  /\ compiled \cup rejected = {}
  /\ IF Passes(b) /\ TypesMatch(o)
     THEN /\ compiled' = { [ runner  |-> CompiledRunner(b, o),
                             acyclic |-> IsAcyclic(b) ] }
          /\ UNCHANGED rejected
     ELSE /\ \E e \in IF Passes(b) THEN {Error("mismatch", {})}
                                    ELSE Rejections(b) : rejected' = {e}
          /\ UNCHANGED compiled
  /\ UNCHANGED <<b, calls>>

Compiled == compiled \cup rejected # {} /\ UNCHANGED vars

Next ==
  \/ \E id \in ID, isNil \in BOOLEAN : AddNode(id, isNil)
  \/ \E from, to \in ID : AddEdge(from, to)
  \/ \E from \in ID : AddConditionalEdge(from)
  \/ \E from \in ID : AddFanEdge(from)
  \/ \E id \in ID : SetEntryPoint(id)
  \/ \E ids \in SUBSET ID : SetTerminal(ids)
  \/ \E o \in Options : Compile(o)
  \/ Compiled

Spec == Init /\ [][Next]_vars

-----------------------------------------------------------------------------
(* Properties.                                                             *)

ErrorKind == {"compile", "duplicate", "noreducer", "noentry", "notfound",
              "dangling", "conflict", "deadend", "unreachable", "mismatch"}

(* Every variable keeps its type.                                          *)
TypeOK ==
  /\ b \in Builder
  /\ calls \in 0..MaxCalls
  /\ compiled \in SUBSET [runner : Runner, acyclic : BOOLEAN]
  /\ rejected \in SUBSET [kind : ErrorKind, at : SUBSET ID]

(* What runLoop and nextFrontier take for granted of a compiled Runner: it *)
(* is one GraphRunner may be given, routers and terminal marks sit on      *)
(* registered nodes, no node has two ways out, and none has no way out.    *)
RunnableOnceCompiled ==
  \A c \in compiled :
    LET r == c.runner
    IN /\ r \in Runner
       /\ StaticallyClosed(r)
       /\ r.conds \cup r.fans \cup r.terminal \subseteq r.nodes
       /\ r.conds \cap r.fans = {}
       /\ \A n \in r.nodes :
            /\ ~DeadEnd(r, n)
            /\ n \in r.conds \cup r.fans => r.edges[n] = {}

(* The nodes reached from n: those of every set that has n and, with a     *)
(* node, its targets.                                                      *)
Reached(n) ==
  { m \in Nodes(b) : \A S \in SUBSET Nodes(b) :
      n \in S /\ (\A k \in S : Targets(b, k) \subseteq S) => m \in S }

(* The graphs Compile is meant to accept, by reachability and not by walk. *)
Valid ==
  LET named == {b.entry} \cup b.terminal \cup Routered(b)
                 \cup { n \in ID : b.edges[n] # <<>> }
                 \cup UNION { Targets(b, n) : n \in ID }
      reached == Reached(b.entry)
  IN /\ b.errs = <<>> /\ b.reducer
     /\ named \subseteq Nodes(b)
     /\ b.conds \cap b.fans = {}
     /\ \A n \in Nodes(b) :
          /\ n \notin Routered(b) \/ b.edges[n] = <<>>
          /\ n \in b.terminal \cup Routered(b) \/ b.edges[n] # <<>>
     /\ Nodes(b) \subseteq reached \/ reached \cap Routered(b) # {}

(* Compile returns a Runner for exactly the valid graphs, options of the   *)
(* wrong type aside: no fault slips past a check that an earlier check or  *)
(* the shortcut for routers was thought to make unnecessary.               *)
AcceptsExactlyValid ==
  /\ compiled # {} => Valid
  /\ \A e \in rejected : e.kind = "mismatch" <=> Valid

(* IsAcyclic tells whether no target of a node leads back to it over the   *)
(* static edges, those recorded twice and self-loops included              *)
(* (compile.go:263-295).                                                   *)
AcyclicIsExact ==
  \A c \in compiled :
    c.acyclic <=>
      \A n \in Nodes(b) : \A m \in Targets(b, n) : n \notin Reached(m)

(* The nodes some run of r can execute, its routers free to name any node. *)
Runnable(r) ==
  LET reach[k \in 0..Cardinality(r.nodes)] ==
        IF k = 0 THEN {r.entry}
        ELSE reach[k - 1]
               \cup UNION UNION { NextFrontiers(r, {n}) : n \in reach[k - 1] }
  IN reach[Cardinality(r.nodes)]

(* No compiled graph holds a node that cannot be reached (errors.go:62).   *)
EveryNodeCanRun == \A c \in compiled : c.runner.nodes \subseteq Runnable(c.runner)
=============================================================================
