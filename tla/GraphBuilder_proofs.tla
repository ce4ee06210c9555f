------------------------- MODULE GraphBuilder_proofs -------------------------
(***************************************************************************)
(* Proofs about GraphBuilder: its type invariant, and that whatever chain  *)
(* of calls built it, a graph Compile accepts is one a Runner can run.     *)
(***************************************************************************)
EXTENDS GraphBuilder, DataLemmas

(* A check is a set of errors Compile may report; an option of the wrong   *)
(* type is found after them.                                               *)
Errors == [kind : ErrorKind \ {"mismatch"}, at : SUBSET ID]

-----------------------------------------------------------------------------
(* Lemmas about the operators.                                             *)

LEMMA NodesType ==
  ASSUME NEW c \in Builder
  PROVE  /\ Nodes(c) \subseteq NodeID
         /\ \A n \in ID : Targets(c, n) \subseteq ID
         /\ \A n \in ID : c.edges[n] = <<>> <=> Targets(c, n) = {}
<1>1. c.order \in Seq(NodeID) /\ \A n \in ID : c.edges[n] \in Seq(ID)
  BY DEF Builder
<1>2. \A n \in ID : DOMAIN c.edges[n] = 1..Len(c.edges[n]) /\ Len(c.edges[n]) \in Nat
  BY <1>1, LenProperties
<1>3. Nodes(c) \subseteq NodeID
  BY <1>1, ElementOfSeq, LenProperties DEF Nodes, ToSet
<1>4. ASSUME NEW n \in ID PROVE Targets(c, n) \subseteq ID
  BY <1>1, ElementOfSeq, LenProperties DEF Targets, ToSet
<1>5. ASSUME NEW n \in ID PROVE c.edges[n] = <<>> <=> Targets(c, n) = {}
  <2>1. c.edges[n] \in Seq(ID) /\ DOMAIN c.edges[n] = 1..Len(c.edges[n])
    BY <1>1, <1>2
  <2>2. c.edges[n] # <<>> => 1 \in DOMAIN c.edges[n]
    BY <2>1, EmptySeq, LenProperties
  <2>3. c.edges[n] = <<>> => DOMAIN c.edges[n] = {}
    BY <2>1
  <2> QED BY <2>2, <2>3 DEF Targets, ToSet
<1> QED BY <1>3, <1>4, <1>5

(* What Compile has established when every check came out empty.           *)
LEMMA ChecksAre ==
  ASSUME NEW c \in Builder
  PROVE  Passes(c) <=>
           /\ c.errs = <<>> /\ c.reducer /\ c.entry # 0
           /\ c.entry \in Nodes(c) /\ c.terminal \subseteq Nodes(c)
           /\ EdgeFaults(c) = {} /\ c.conds \subseteq Nodes(c)
           /\ c.conds \cap c.fans = {} /\ c.fans \subseteq Nodes(c)
           /\ DeadEnds(c) = {} /\ Nodes(c) \subseteq ReachableSet(c)
<1>1. DOMAIN Checks(c) = 1..10
  BY DEF Checks
<1>2. Passes(c) <=> \A i \in 1..10 : Checks(c)[i] = {}
  BY <1>1 DEF Passes
<1>3. Passes(c) <=>
        /\ Checks(c)[1] = {} /\ Checks(c)[2] = {} /\ Checks(c)[3] = {}
        /\ Checks(c)[4] = {} /\ Checks(c)[5] = {} /\ Checks(c)[6] = {}
        /\ Checks(c)[7] = {} /\ Checks(c)[8] = {} /\ Checks(c)[9] = {}
        /\ Checks(c)[10] = {}
  BY <1>2
<1>4. /\ Checks(c)[1] = {} <=> c.errs = <<>>
      /\ Checks(c)[2] = {} <=> c.reducer
      /\ Checks(c)[3] = {} <=> c.entry # 0
  BY DEF Checks
<1>5. \A S : NotFound(S) = {} <=> S = {}
  BY DEF NotFound
<1>6. /\ Checks(c)[4] = {} <=> c.entry \in Nodes(c)
      /\ Checks(c)[5] = {} <=> c.terminal \subseteq Nodes(c)
      /\ Checks(c)[8] = {} <=> c.fans \subseteq Nodes(c)
  <2>1. /\ Checks(c)[4] = NotFound({c.entry} \ Nodes(c))
        /\ Checks(c)[5] = NotFound(c.terminal \ Nodes(c))
        /\ Checks(c)[8] = NotFound(c.fans \ Nodes(c))
    BY DEF Checks
  <2> QED BY <1>5, <2>1
<1>7. Checks(c)[6] = EdgeFaults(c)
  BY DEF Checks
<1>8. Checks(c)[7] = {} /\ c.fans \subseteq Nodes(c) <=>
        /\ c.conds \subseteq Nodes(c) /\ c.conds \cap c.fans = {}
        /\ c.fans \subseteq Nodes(c)
  <2> DEFINE clash == { Error("conflict", {n}) :
                          n \in c.conds \cap c.fans \cap Nodes(c) }
  <2>1. Checks(c)[7] = NotFound(c.conds \ Nodes(c)) \cup clash
    BY DEF Checks, CondFaults
  <2>2. clash = {} <=> c.conds \cap c.fans \cap Nodes(c) = {}
    OBVIOUS
  <2> HIDE DEF clash
  <2> QED BY <1>5, <2>1, <2>2
<1>9. Checks(c)[9] = {} <=> DeadEnds(c) = {}
  <2>1. Checks(c)[9] = FirstDeadEnd(c)
    BY DEF Checks
  <2>2. FirstDeadEnd(c) = {} <=>
          { i \in DOMAIN c.order : c.order[i] \in DeadEnds(c) } = {}
    BY DEF FirstDeadEnd
  <2>3. \A n \in DeadEnds(c) : \E i \in DOMAIN c.order : c.order[i] = n
    BY DEF DeadEnds, Nodes, ToSet
  <2> QED BY <2>1, <2>2, <2>3
<1>10. Checks(c)[10] = {} <=> Nodes(c) \subseteq ReachableSet(c)
  <2>1. Checks(c)[10] = Unreachable(c)
    BY DEF Checks
  <2>2. Unreachable(c) = {} <=> Nodes(c) \ ReachableSet(c) = {}
    BY DEF Unreachable
  <2> QED BY <2>1, <2>2
<1> QED BY <1>3, <1>4, <1>6, <1>7, <1>8, <1>9, <1>10

(* EdgeFaults came out empty: static edges lead from registered nodes      *)
(* without a router to registered nodes.                                   *)
LEMMA NoEdgeFaults ==
  ASSUME NEW c \in Builder, EdgeFaults(c) = {}, NEW n \in ID, c.edges[n] # <<>>
  PROVE  /\ n \in Nodes(c)
         /\ Targets(c, n) \subseteq Nodes(c)
         /\ n \notin Routered(c)
  BY DEF EdgeFaults, Error

(* What Compile reports is an error of a known kind about some IDs.        *)
LEMMA RejectionsType ==
  ASSUME NEW c \in Builder
  PROVE  Rejections(c) \subseteq Errors
<1>1. \A S \in SUBSET ID : NotFound(S) \subseteq Errors
  BY DEF NotFound, Error, Errors, ErrorKind
<1>2. /\ Nodes(c) \subseteq ID /\ c.entry \in ID
      /\ c.terminal \in SUBSET ID /\ c.fans \in SUBSET ID /\ c.conds \in SUBSET ID
  BY NodesType DEF Builder, ID
<1>3. /\ NotFound({c.entry} \ Nodes(c)) \subseteq Errors
      /\ NotFound(c.terminal \ Nodes(c)) \subseteq Errors
      /\ NotFound(c.fans \ Nodes(c)) \subseteq Errors
      /\ NotFound(c.conds \ Nodes(c)) \subseteq Errors
  BY <1>1, <1>2
<1>4. EdgeFaults(c) \subseteq Errors
  BY DEF EdgeFaults, Error, Errors, ErrorKind
<1>5. CondFaults(c) \subseteq Errors
  <2>1. \A S \in SUBSET ID : { Error("conflict", {n}) : n \in S } \subseteq Errors
    BY DEF Error, Errors, ErrorKind
  <2>2. c.conds \cap c.fans \cap Nodes(c) \in SUBSET ID
    BY <1>2
  <2>3. { Error("conflict", {n}) : n \in c.conds \cap c.fans \cap Nodes(c) }
          \subseteq Errors
    BY <2>1, <2>2
  <2> QED BY <1>3, <2>3 DEF CondFaults
<1>6. FirstDeadEnd(c) \subseteq Errors
  <2> DEFINE dead == { i \in DOMAIN c.order : c.order[i] \in DeadEnds(c) }
  <2>1. CASE dead = {}
    BY <2>1 DEF FirstDeadEnd
  <2>2. CASE dead # {}
    <3>1. c.order \in Seq(NodeID)
      BY DEF Builder
    <3>2. dead \in SUBSET Nat
      BY <3>1, LenProperties
    <3>3. Min(dead) \in dead
      BY <2>2, <3>2, MinInSet
    <3>4. c.order[Min(dead)] \in ID
      BY <3>1, <3>3, ElementOfSeq, LenProperties DEF ID
    <3>5. Error("deadend", {c.order[Min(dead)]}) \in Errors
      BY <3>4 DEF Error, Errors, ErrorKind
    <3> QED BY <2>2, <3>5 DEF FirstDeadEnd
  <2> QED BY <2>1, <2>2
<1>7. Unreachable(c) \subseteq Errors
  BY <1>2 DEF Unreachable, Error, Errors, ErrorKind
<1>8. /\ (IF c.errs = <<>> THEN {} ELSE {Error(Head(c.errs), {})}) \subseteq Errors
      /\ (IF c.reducer THEN {} ELSE {Error("noreducer", {})}) \subseteq Errors
      /\ (IF c.entry = 0 THEN {Error("noentry", {})} ELSE {}) \subseteq Errors
  <2>1. c.errs # <<>> => Head(c.errs) \in {"compile", "duplicate"}
    BY HeadTailProperties DEF Builder
  <2> QED BY <2>1 DEF Error, Errors, ErrorKind
<1>9. DOMAIN Checks(c) = 1..10
  BY DEF Checks
<1>10. ASSUME NEW i \in 1..10 PROVE Checks(c)[i] \subseteq Errors
  <2>1. /\ i = 1 \/ i = 2 \/ i = 3 \/ i = 4 \/ i = 5
          \/ i = 6 \/ i = 7 \/ i = 8 \/ i = 9 \/ i = 10
    OBVIOUS
  <2> QED BY <1>3, <1>4, <1>5, <1>6, <1>7, <1>8, <2>1 DEF Checks
<1> QED BY <1>9, <1>10 DEF Rejections

(* A graph whose checks all came out empty is one a Runner can run.        *)
LEMMA CompiledIsRunnable ==
  ASSUME NEW c \in Builder, Passes(c), NEW o \in Option
  PROVE  LET r == CompiledRunner(c, o)
         IN /\ r \in Runner
            /\ StaticallyClosed(r)
            /\ r.conds \cup r.fans \cup r.terminal \subseteq r.nodes
            /\ r.conds \cap r.fans = {}
            /\ \A n \in r.nodes :
                 /\ ~DeadEnd(r, n)
                 /\ n \in r.conds \cup r.fans => r.edges[n] = {}
<1> DEFINE r == CompiledRunner(c, o)
<1>1. /\ c.entry \in Nodes(c)
      /\ c.conds \cup c.fans \cup c.terminal \subseteq Nodes(c)
      /\ c.conds \cap c.fans = {}
      /\ EdgeFaults(c) = {}
      /\ DeadEnds(c) = {}
  BY ChecksAre
<1>2. /\ Nodes(c) \subseteq NodeID
      /\ \A n \in ID : c.edges[n] = <<>> <=> Targets(c, n) = {}
  BY NodesType
<1>3. /\ r.nodes = Nodes(c) /\ r.conds = c.conds /\ r.fans = c.fans
      /\ r.terminal = c.terminal /\ r.entry = c.entry
      /\ r.edges = [n \in NodeID |-> Targets(c, n)]
  BY DEF CompiledRunner
<1>4. NodeID \subseteq ID
  BY DEF ID
<1>5. ASSUME NEW n \in NodeID
      PROVE  /\ Targets(c, n) \subseteq Nodes(c)
             /\ n \in Routered(c) => Targets(c, n) = {}
  <2>1. CASE c.edges[n] = <<>>
    BY <1>2, <1>4, <2>1
  <2>2. CASE c.edges[n] # <<>>
    BY <1>1, <1>4, <2>2, NoEdgeFaults
  <2> QED BY <2>1, <2>2
<1>6. r \in Runner
  <2>1. r.edges \in [NodeID -> SUBSET NodeID]
    BY <1>2, <1>3, <1>5
  <2>2. /\ r.recursionLimit \in Nat \ {0}
        /\ r.maxParallel \in Nat \ {0}
        /\ r.checkpointInterval \in Nat \ {0}
    BY BuilderAssumption DEF CompiledRunner, OrDefault, Option
  <2>3. r.checkpointer \in BOOLEAN /\ r.handler \in BOOLEAN
    BY DEF CompiledRunner
  <2>4. r.maxHistory \in Nat
    BY DEF CompiledRunner, Option
  <2>5. /\ r.nodes \in SUBSET NodeID /\ r.conds \in SUBSET NodeID
        /\ r.fans \in SUBSET NodeID /\ r.terminal \in SUBSET NodeID
        /\ r.entry \in NodeID
    BY <1>1, <1>2, <1>3
  <2>6. r = [ nodes |-> r.nodes, edges |-> r.edges, conds |-> r.conds,
              fans |-> r.fans, terminal |-> r.terminal, entry |-> r.entry,
              recursionLimit |-> r.recursionLimit,
              maxParallel |-> r.maxParallel,
              checkpointInterval |-> r.checkpointInterval,
              checkpointer |-> r.checkpointer, maxHistory |-> r.maxHistory,
              handler |-> r.handler ]
    BY DEF CompiledRunner
  <2> HIDE DEF r
  <2> QED BY <2>1, <2>2, <2>3, <2>4, <2>5, <2>6 DEF Runner
<1>7. StaticallyClosed(r)
  BY <1>1, <1>3, <1>5 DEF StaticallyClosed
<1>8. ASSUME NEW n \in r.nodes
      PROVE  /\ ~DeadEnd(r, n)
             /\ n \in r.conds \cup r.fans => r.edges[n] = {}
  <2>1. n \in NodeID /\ n \in ID /\ n \in Nodes(c)
    BY <1>2, <1>3, <1>4
  <2>2. n \in c.terminal \cup Routered(c) \/ c.edges[n] # <<>>
    BY <1>1, <2>1 DEF DeadEnds
  <2>3. n \in c.terminal \cup Routered(c) \/ r.edges[n] # {}
    BY <1>2, <1>3, <2>1, <2>2
  <2>4. ~DeadEnd(r, n)
    BY <1>3, <2>3 DEF DeadEnd, Ends, Static, Routered
  <2>5. n \in r.conds \cup r.fans => r.edges[n] = {}
    BY <1>3, <1>5, <2>1 DEF Routered
  <2> QED BY <2>4, <2>5
<1> QED BY <1>1, <1>3, <1>6, <1>7, <1>8

-----------------------------------------------------------------------------
(* reachableSet: the walk ends, and visits what the entry leads to.        *)

(* No target of a node in S is outside of it.                              *)
Closed(c, S) == \A n \in S : Targets(c, n) \subseteq S

WalkState == [visited : SUBSET ID, stack : Seq(ID)]

LEMMA EdgesFinite ==
  ASSUME NEW c \in Builder
  PROVE  /\ IsFiniteSet(Edges(c))
         /\ \A e : e \in Edges(c) <=>
              \E n \in ID : \E i \in 1..Len(c.edges[n]) : e = <<n, i>>
<1> DEFINE Of(n) == {n} \X DOMAIN c.edges[n]
           F == [n \in ID |-> Of(n)]
<1>1. \A n \in ID : c.edges[n] \in Seq(ID)
  BY DEF Builder
<1>2. \A n \in ID : DOMAIN c.edges[n] = 1..Len(c.edges[n]) /\ Len(c.edges[n]) \in Nat
  BY <1>1, LenProperties
<1>3. IsFiniteSet(ID)
  BY NodeIDAssumption, FS_AddElement DEF ID
<1>4. ASSUME NEW n \in ID PROVE IsFiniteSet(Of(n))
  <2>1. IsFiniteSet(DOMAIN c.edges[n])
    BY <1>2, FS_Interval
  <2> QED BY <2>1, FS_Singleton, FS_Product
<1>5. IsFiniteSet({ F[n] : n \in ID })
  <2> DEFINE T == { Of(n) : n \in ID }
  <2>1. F \in [ID -> T]
    OBVIOUS
  <2> HIDE DEF F, T
  <2> QED BY <1>3, <2>1, FiniteImage
<1>6. { F[n] : n \in ID } = { Of(n) : n \in ID }
  OBVIOUS
<1>7. IsFiniteSet(UNION { Of(n) : n \in ID })
  <2>1. \A X \in { Of(n) : n \in ID } : IsFiniteSet(X)
    BY <1>4
  <2> HIDE DEF Of, F
  <2> QED BY <1>5, <1>6, <2>1, FS_UNION
<1>8. \A e : e \in Edges(c) <=>
        \E n \in ID : \E i \in 1..Len(c.edges[n]) : e = <<n, i>>
  BY <1>2 DEF Edges
<1> QED BY <1>7, <1>8 DEF Edges

(* What a turn of the walk leaves on the stack.                            *)
LEMMA PushedIs ==
  ASSUME NEW S, NEW seen, NEW s \in Seq(S), NEW q \in Seq(S)
  PROVE  /\ Pushed(s, q, seen) \in Seq(S)
         /\ Len(Pushed(s, q, seen)) <= Len(s) + Len(q)
         /\ \A x : x \in ToSet(Pushed(s, q, seen))
                     <=> x \in ToSet(s) \/ (x \in ToSet(q) /\ x \notin seen)
<1> DEFINE n == Len(q)
           Op(x, i) == IF q[i] \in seen THEN x ELSE Append(x, q[i])
           g == [p \in Seq(S) \X (1..n) |-> Op(p[1], p[2])]
           h1 == CHOOSE h : h = [ t \in SUBSET DOMAIN q |->
                   IF t = {} THEN s ELSE Op(h[t \ {Max(t)}], Max(t)) ]
<1>1. n \in Nat /\ DOMAIN q = 1..n /\ \A i \in 1..n : q[i] \in S
  BY LenProperties, ElementOfSeq
<1>2. \A x \in Seq(S), i \in 1..n : Op(x, i) \in Seq(S)
  BY <1>1, AppendProperties
<1>3. g \in [Seq(S) \X (1..n) -> Seq(S)]
  BY <1>2
<1>4. PICK h \in [SUBSET (1..n) -> Seq(S)] : Folds(h, s, g, n)
  <2> DEFINE Q == Seq(S)
  <2>1. n \in Nat /\ s \in Q /\ g \in [Q \X (1..n) -> Q]
    BY <1>1, <1>3
  <2> HIDE DEF g, n, Q
  <2>2. \E h \in [SUBSET (1..n) -> Q] : Folds(h, s, g, n)
    BY <2>1, FoldExists
  <2> QED BY <2>2 DEF Q
<1>5. \A t \in SUBSET (1..n) : t # {} => Max(t) \in t
  BY <1>1, MaxOfPlaces
<1>6. h = [ t \in SUBSET DOMAIN q |->
              IF t = {} THEN s ELSE Op(h[t \ {Max(t)}], Max(t)) ]
  <2>1. ASSUME NEW t \in SUBSET (1..n)
        PROVE  h[t] = IF t = {} THEN s ELSE Op(h[t \ {Max(t)}], Max(t))
    <3>1. CASE t = {}
      BY <1>4, <3>1 DEF Folds
    <3>2. CASE t # {}
      <4>1. Max(t) \in 1..n /\ t \ {Max(t)} \in SUBSET (1..n)
        BY <1>5, <3>2
      <4>2. g[<<h[t \ {Max(t)}], Max(t)>>] = Op(h[t \ {Max(t)}], Max(t))
        BY <4>1
      <4> QED BY <1>4, <3>2, <4>2 DEF Folds
    <3> QED BY <3>1, <3>2
  <2> HIDE DEF Op
  <2>2. h = [t \in SUBSET (1..n) |-> h[t]]
    OBVIOUS
  <2> QED BY <1>1, <2>1, <2>2
<1>7. Pushed(s, q, seen) = h1[1..n]
  BY <1>1 DEF Pushed, FoldLeft, MapThenFoldSet
<1>8. h1 = [ t \in SUBSET DOMAIN q |->
               IF t = {} THEN s ELSE Op(h1[t \ {Max(t)}], Max(t)) ]
  <2> HIDE DEF Op
  <2> QED BY <1>6
<1> HIDE DEF h1
<1>9. h1[{}] = s /\ \A i \in 1..n : h1[1..i] = Op(h1[1..(i - 1)], i)
  <2>1. h1[{}] = s
    BY <1>8
  <2>2. ASSUME NEW i \in 1..n PROVE h1[1..i] = Op(h1[1..(i - 1)], i)
    <3>1. /\ 1..i \in SUBSET (1..n) /\ 1..i # {}
          /\ Max(1..i) = i /\ (1..i) \ {i} = 1..(i - 1)
      BY <1>1, FirstPlaces
    <3> HIDE DEF Op, n
    <3> QED BY <1>1, <1>8, <3>1
  <2> QED BY <2>1, <2>2
<1> DEFINE T == { i \in 0..n :
                  /\ h1[1..i] \in Seq(S)
                  /\ Len(h1[1..i]) <= Len(s) + i
                  /\ ToSet(h1[1..i])
                       = ToSet(s) \cup ({ q[k] : k \in 1..i } \ seen) }
<1>10. 0 \in T
  <2>1. 1..0 = {} /\ { q[k] : k \in {} } = {} /\ Len(s) \in Nat
    BY LenProperties
  <2>2. h1[1..0] = s
    BY <1>9, <2>1
  <2> QED BY <1>1, <2>1, <2>2
<1>11. ASSUME NEW i \in 1..n, i - 1 \in T PROVE i \in T
  <2> DEFINE old == h1[1..(i - 1)]
             new == h1[1..i]
  <2>1. new = IF q[i] \in seen THEN old ELSE Append(old, q[i])
    BY <1>9
  <2>2. /\ old \in Seq(S) /\ Len(old) <= Len(s) + (i - 1)
        /\ ToSet(old) = ToSet(s) \cup ({ q[k] : k \in 1..(i - 1) } \ seen)
    BY <1>11
  <2>3. Len(old) \in Nat /\ Len(s) \in Nat /\ q[i] \in S
    BY <1>1, <2>2, LenProperties
  <2> HIDE DEF old, new, T
  <2>4. new \in Seq(S) /\ Len(new) <= Len(s) + i
    BY <2>1, <2>2, <2>3, AppendProperties
  <2>5. ToSet(new) = IF q[i] \in seen THEN ToSet(old) ELSE ToSet(old) \cup {q[i]}
    <3> DEFINE e == q[i]
    <3>1. e \in S
      BY <2>3
    <3> HIDE DEF e
    <3>2. ToSet(Append(old, e)) = ToSet(old) \cup {e}
      BY <2>2, <3>1, AppendSet
    <3> QED BY <2>1, <3>2 DEF e
  <2>6. { q[k] : k \in 1..i } = { q[k] : k \in 1..(i - 1) } \cup {q[i]}
    <3>1. 1..i = (1..(i - 1)) \cup {i}
      OBVIOUS
    <3> QED BY <3>1
  <2>7. ToSet(new) = ToSet(s) \cup ({ q[k] : k \in 1..i } \ seen)
    BY <2>2, <2>5, <2>6
  <2> QED BY <2>4, <2>7 DEF T, new
<1>12. n \in T
  <2> HIDE DEF T, n
  <2>1. 0..n \subseteq T
    BY <1>1, <1>10, <1>11, BoundedInduction
  <2> QED BY <1>1, <2>1
<1>13. { q[k] : k \in 1..n } = ToSet(q)
  BY <1>1 DEF ToSet
<1>14. ToSet(Pushed(s, q, seen)) = ToSet(s) \cup (ToSet(q) \ seen)
  BY <1>7, <1>12, <1>13
<1> QED BY <1>7, <1>12, <1>14

(* What one turn of the walk does: it takes an ID off the stack and, when  *)
(* that is new, visits it.                                                 *)
Visits(c, w, id, s, v) ==
  /\ v \in WalkState /\ id \in ID
  /\ ToSet(w.stack) = ToSet(s) \cup {id}
  /\ id \in w.visited =>
       /\ v.visited = w.visited
       /\ ToSet(v.stack) = ToSet(s)
       /\ Len(v.stack) <= Len(w.stack) - 1
  /\ id \notin w.visited =>
       /\ v.visited = w.visited \cup {id}
       /\ ToSet(v.stack) = ToSet(s) \cup (Targets(c, id) \ v.visited)
       /\ Len(v.stack) <= (Len(w.stack) - 1) + Len(c.edges[id])

LEMMA TurnIs ==
  ASSUME NEW c \in Builder, NEW w \in WalkState, w.stack # <<>>,
         NEW id, id = Last(w.stack), NEW s, s = Front(w.stack),
         NEW v, v = WalkTurn(c, w)
  PROVE  Visits(c, w, id, s, v)
<1>1. w.visited \in SUBSET ID /\ w.stack \in Seq(ID)
      /\ w = [visited |-> w.visited, stack |-> w.stack]
  BY DEF WalkState
<1>2. /\ s \in Seq(ID) /\ Len(w.stack) \in Nat \ {0}
      /\ Len(s) = Len(w.stack) - 1 /\ id \in ID
      /\ ToSet(w.stack) = ToSet(s) \cup {id}
  <2> DEFINE t == w.stack
  <2>1. t \in Seq(ID) /\ t # <<>>
    BY <1>1
  <2> HIDE DEF t
  <2>2. /\ Front(t) \in Seq(ID) /\ Len(t) \in Nat \ {0}
        /\ Len(Front(t)) = Len(t) - 1 /\ Last(t) \in ID
        /\ ToSet(t) = ToSet(Front(t)) \cup {Last(t)}
    BY <2>1, FrontLastSet
  <2> QED BY <2>2 DEF t
<1>3. CASE id \in w.visited
  <2>1. v = [visited |-> w.visited, stack |-> s]
    BY <1>1, <1>3 DEF WalkTurn
  <2>2. v.visited = w.visited /\ v.stack = s
    BY <2>1
  <2>3. v \in WalkState
    BY <1>1, <1>2, <2>1 DEF WalkState
  <2>4. Len(v.stack) <= Len(w.stack) - 1
    BY <1>2, <2>2
  <2> QED BY <1>2, <1>3, <2>2, <2>3, <2>4 DEF Visits
<1>4. CASE id \notin w.visited
  <2> DEFINE seen == w.visited \cup {id}
             q == c.edges[id]
             p == Pushed(s, q, seen)
             Q == Seq(ID)
  <2>1. v = [visited |-> seen, stack |-> p]
    BY <1>4 DEF WalkTurn
  <2>2. v.visited = seen /\ v.stack = p
    BY <2>1
  <2>3. q \in Seq(ID) /\ Len(q) \in Nat
    BY <1>2, LenProperties DEF Builder
  <2>4. /\ p \in Seq(ID) /\ Len(p) <= Len(s) + Len(q)
        /\ ToSet(p) = ToSet(s) \cup (ToSet(q) \ seen)
    <3> HIDE DEF q, seen
    <3>1. s \in Seq(ID) /\ q \in Seq(ID)
      BY <1>2, <2>3
    <3>2. Pushed(s, q, seen) \in Seq(ID)
      BY ONLY <3>1, PushedIs
    <3>3. Len(Pushed(s, q, seen)) <= Len(s) + Len(q)
      BY ONLY <3>1, PushedIs
    <3>4. \A x : x \in ToSet(Pushed(s, q, seen))
                  <=> x \in ToSet(s) \/ (x \in ToSet(q) /\ x \notin seen)
      BY ONLY <3>1, PushedIs
    <3> QED BY <3>2, <3>3, <3>4
  <2>5. v \in WalkState
    BY <1>1, <1>2, <2>1, <2>4 DEF WalkState
  <2>6. ToSet(q) = Targets(c, id)
    BY DEF Targets
  <2> HIDE DEF q, p, seen
  <2>7. ToSet(v.stack) = ToSet(s) \cup (Targets(c, id) \ v.visited)
    BY <2>2, <2>4, <2>6
  <2>8. Len(v.stack) <= (Len(w.stack) - 1) + Len(c.edges[id])
    BY <1>2, <2>2, <2>4 DEF q
  <2> QED BY <1>2, <1>4, <2>2, <2>5, <2>7, <2>8 DEF seen, Visits
<1> QED BY <1>3, <1>4

(* The edges a walk that has visited V may still follow.                   *)
Left(c, V) == { e \in Edges(c) : e[1] \notin V }

LEMMA LeftDrops ==
  ASSUME NEW c \in Builder, NEW V, NEW id \in ID, id \notin V
  PROVE  /\ Cardinality(Left(c, V)) \in Nat
         /\ Cardinality(Left(c, V \cup {id})) \in Nat
         /\ Cardinality(Left(c, V))
              = Cardinality(Left(c, V \cup {id})) + Len(c.edges[id])
<1> DEFINE n == Len(c.edges[id])
           D == {id} \X (1..n)
           A == Left(c, V)
           B == Left(c, V \cup {id})
<1>1. IsFiniteSet(Edges(c)) /\ A \in SUBSET Edges(c)
  BY EdgesFinite DEF Left
<1>2. n \in Nat
  BY LenProperties DEF Builder
<1>3. IsFiniteSet(A)
  BY <1>1, FS_Subset
<1>4. D \subseteq A /\ B = A \ D
  <2>1. \A e : e \in D => e[1] = id /\ \E i \in 1..n : e = <<id, i>>
    OBVIOUS
  <2>2. \A e \in Edges(c) : e[1] = id => e \in D
    <3> SUFFICES ASSUME NEW m \in ID, NEW i \in 1..Len(c.edges[m]), m = id
                 PROVE  <<m, i>> \in D
      BY EdgesFinite
    <3> QED OBVIOUS
  <2>3. D \subseteq A
    BY <2>1, EdgesFinite DEF Left
  <2>4. B = A \ D
    BY <2>1, <2>2 DEF Left
  <2> QED BY <2>3, <2>4
<1>5. IsFiniteSet(D) /\ Cardinality(D) = n
  <2>1. /\ IsFiniteSet(1..n) /\ Cardinality(1..n) = n
        /\ IsFiniteSet({id}) /\ Cardinality({id}) = 1
    <3>1. IsFiniteSet(1..n) /\ Cardinality(1..n) = IF 1 > n THEN 0 ELSE (n - 1) + 1
      <4>1. 1 \in Int /\ n \in Int
        BY <1>2
      <4> HIDE DEF n
      <4> QED BY <4>1, FS_Interval
    <3>2. Cardinality(1..n) = n
      <4> HIDE DEF n
      <4> QED BY <1>2, <3>1
    <3> QED BY <3>1, <3>2, FS_Singleton
  <2>2. IsFiniteSet(D) /\ Cardinality(D) = 1 * n
    BY <2>1, FS_Product
  <2> HIDE DEF D, n
  <2> QED BY <1>2, <2>2
<1> HIDE DEF A, B, D, n
<1>6. /\ IsFiniteSet(B) /\ A \cap D = D
      /\ Cardinality(B) = Cardinality(A) - Cardinality(A \cap D)
  BY <1>3, <1>4, FS_Difference
<1>7. Cardinality(A) \in Nat /\ Cardinality(B) \in Nat
  BY <1>3, <1>6, FS_CardinalityType
<1>8. Cardinality(A) = Cardinality(B) + n
  BY <1>2, <1>5, <1>6, <1>7
<1> QED BY <1>7, <1>8 DEF A, B, n

(* What holds of the walk after any number of turns.                       *)
WalkInv(c, w) ==
  LET found == w.visited \cup ToSet(w.stack)
  IN /\ w \in WalkState
     /\ c.entry \in found
     /\ \A n \in w.visited : Targets(c, n) \subseteq found
     /\ \A S : Closed(c, S) /\ c.entry \in S => found \subseteq S

Work(c, w) == Len(w.stack) + Cardinality(Left(c, w.visited))

LEMMA WorkType ==
  ASSUME NEW c \in Builder, NEW w \in WalkState
  PROVE  /\ Work(c, w) \in Nat /\ Len(w.stack) \in Nat
         /\ Len(w.stack) <= Work(c, w)
<1>1. IsFiniteSet(Edges(c)) /\ Left(c, w.visited) \in SUBSET Edges(c)
  BY EdgesFinite DEF Left
<1>2. Cardinality(Left(c, w.visited)) \in Nat
  BY <1>1, FS_Subset, FS_CardinalityType
<1>3. Len(w.stack) \in Nat
  BY LenProperties DEF WalkState
<1> QED BY <1>2, <1>3 DEF Work

LEMMA TurnKeeps ==
  ASSUME NEW c \in Builder, NEW w \in WalkState, WalkInv(c, w),
         NEW v, v = WalkTurn(c, w)
  PROVE  /\ v \in WalkState /\ WalkInv(c, v)
         /\ w.stack = <<>> => v = w
         /\ w.stack # <<>> => Work(c, v) < Work(c, w)
<1>1. CASE w.stack = <<>>
  BY <1>1 DEF WalkTurn
<1>2. CASE w.stack # <<>>
  <2> DEFINE found(x) == x.visited \cup ToSet(x.stack)
  <2>0. PICK id, s : id = Last(w.stack) /\ s = Front(w.stack)
    OBVIOUS
  <2>1. /\ v \in WalkState /\ id \in ID
        /\ ToSet(w.stack) = ToSet(s) \cup {id}
        /\ id \in w.visited =>
             /\ v.visited = w.visited
             /\ ToSet(v.stack) = ToSet(s)
             /\ Len(v.stack) <= Len(w.stack) - 1
        /\ id \notin w.visited =>
             /\ v.visited = w.visited \cup {id}
             /\ ToSet(v.stack) = ToSet(s) \cup (Targets(c, id) \ v.visited)
             /\ Len(v.stack) <= (Len(w.stack) - 1) + Len(c.edges[id])
    <3>1. Visits(c, w, id, s, v)
      BY <1>2, <2>0, TurnIs
    <3> QED BY <3>1 DEF Visits
  <2>2. /\ Work(c, w) \in Nat /\ Work(c, v) \in Nat
        /\ Len(w.stack) \in Nat /\ Len(v.stack) \in Nat
    BY <2>1, WorkType
  <2>3. /\ c.entry \in found(w)
        /\ \A n \in w.visited : Targets(c, n) \subseteq found(w)
        /\ \A S : Closed(c, S) /\ c.entry \in S => found(w) \subseteq S
    BY DEF WalkInv
  <2>4. CASE id \in w.visited
    <3>1. found(v) = found(w) /\ v.visited = w.visited
      BY <2>1, <2>4
    <3>2. WalkInv(c, v)
      BY <2>1, <2>3, <3>1 DEF WalkInv
    <3>3. Work(c, v) < Work(c, w)
      <4>1. Len(v.stack) <= Len(w.stack) - 1
        BY <2>1, <2>4
      <4>2. Cardinality(Left(c, w.visited)) \in Nat
        <5>1. IsFiniteSet(Edges(c)) /\ Left(c, w.visited) \in SUBSET Edges(c)
          BY EdgesFinite DEF Left
        <5> QED BY <5>1, FS_Subset, FS_CardinalityType
      <4> QED BY <2>2, <3>1, <4>1, <4>2 DEF Work
    <3> QED BY <1>2, <2>1, <3>2, <3>3
  <2>5. CASE id \notin w.visited
    <3>1. /\ v.visited = w.visited \cup {id}
          /\ found(v) = found(w) \cup Targets(c, id)
      BY <2>1, <2>5
    <3>2. WalkInv(c, v)
      <4>1. c.entry \in found(v)
        BY <2>3, <3>1
      <4>2. \A n \in v.visited : Targets(c, n) \subseteq found(v)
        BY <2>3, <3>1
      <4>3. \A S : Closed(c, S) /\ c.entry \in S => found(v) \subseteq S
        BY <2>1, <2>3, <3>1 DEF Closed
      <4> QED BY <2>1, <4>1, <4>2, <4>3 DEF WalkInv
    <3>3. Work(c, v) < Work(c, w)
      <4>1. Len(v.stack) <= (Len(w.stack) - 1) + Len(c.edges[id])
        BY <2>1, <2>5
      <4>2. /\ Cardinality(Left(c, w.visited)) \in Nat
            /\ Cardinality(Left(c, v.visited)) \in Nat
            /\ Cardinality(Left(c, w.visited))
                 = Cardinality(Left(c, v.visited)) + Len(c.edges[id])
        <5>1. id \in ID /\ id \notin w.visited
          BY <2>1, <2>5
        <5>2. /\ Cardinality(Left(c, w.visited)) \in Nat
              /\ Cardinality(Left(c, w.visited \cup {id})) \in Nat
              /\ Cardinality(Left(c, w.visited))
                   = Cardinality(Left(c, w.visited \cup {id})) + Len(c.edges[id])
          BY ONLY <5>1, LeftDrops
        <5> QED BY <3>1, <5>2
      <4>3. Len(c.edges[id]) \in Nat
        BY <2>1, LenProperties DEF Builder
      <4> DEFINE m == Cardinality(Left(c, w.visited))
                 k == Cardinality(Left(c, v.visited))
                 d == Len(c.edges[id])
                 lw == Len(w.stack)
                 lv == Len(v.stack)
      <4>4. Work(c, w) = lw + m /\ Work(c, v) = lv + k
        BY DEF Work
      <4>5. m \in Nat /\ k \in Nat /\ d \in Nat /\ lw \in Nat /\ lv \in Nat
        BY <2>2, <4>2, <4>3
      <4>6. m = k + d /\ lv <= (lw - 1) + d
        BY <4>1, <4>2
      <4> HIDE DEF m, k, d, lw, lv
      <4>7. lv + k < lw + m
        BY <4>5, <4>6
      <4> QED BY <4>4, <4>7
    <3> QED BY <1>2, <2>1, <3>2, <3>3
  <2> QED BY <2>4, <2>5
<1> QED BY <1>1, <1>2

(* reachableSet returns the least closed set that has the entry.           *)
LEMMA WalkIs ==
  ASSUME NEW c \in Builder
  PROVE  /\ Walk(c) \in SUBSET ID
         /\ c.entry \in Walk(c)
         /\ Closed(c, Walk(c))
         /\ \A S : Closed(c, S) /\ c.entry \in S => Walk(c) \subseteq S
<1> DEFINE n == Turns(c)
           w0 == [visited |-> {}, stack |-> <<c.entry>>]
           g == [w \in WalkState |-> WalkTurn(c, w)]
           f == CHOOSE walk : walk = [ k \in 0..n |->
                  IF k = 0 THEN w0 ELSE WalkTurn(c, walk[k - 1]) ]
<1>1. n \in Nat /\ n = 1 + Cardinality(Edges(c))
  BY EdgesFinite, FS_CardinalityType DEF Turns
<1>2. /\ w0 \in WalkState /\ WalkInv(c, w0) /\ Work(c, w0) = n
      /\ c.entry \in ID
  <2>1. c.entry \in ID /\ <<c.entry>> \in Seq(ID) /\ Len(<<c.entry>>) = 1
    BY DEF Builder
  <2>2. ToSet(<<c.entry>>) = {c.entry}
    BY DEF ToSet
  <2>3. w0.visited = {} /\ w0.stack = <<c.entry>>
    OBVIOUS
  <2>4. w0 \in WalkState
    BY <2>1 DEF WalkState
  <2>5. Left(c, {}) = Edges(c)
    BY DEF Left
  <2>6. Work(c, w0) = n
    BY <1>1, <2>1, <2>3, <2>5 DEF Work
  <2> HIDE DEF w0
  <2> QED BY <2>1, <2>2, <2>3, <2>4, <2>6 DEF WalkInv
<1>3. ASSUME NEW w \in WalkState PROVE WalkTurn(c, w) \in WalkState
  <2>1. CASE w.stack = <<>>
    BY <2>1 DEF WalkTurn
  <2>2. CASE w.stack # <<>>
    <3>1. PICK id, s, v : id = Last(w.stack) /\ s = Front(w.stack) /\ v = WalkTurn(c, w)
      OBVIOUS
    <3>2. Visits(c, w, id, s, v)
      BY <2>2, <3>1, TurnIs
    <3> QED BY <3>1, <3>2 DEF Visits
  <2> QED BY <2>1, <2>2
<1>4. g \in [WalkState -> WalkState]
  BY <1>3
<1>5. PICK h \in [0..n -> WalkState] : Iteration(h, w0, g, n)
  <2> HIDE DEF n, w0, g
  <2> QED BY <1>1, <1>2, <1>4, IterationExists
<1>6. h = [k \in 0..n |-> IF k = 0 THEN w0 ELSE g[h[k - 1]]]
  BY <1>5 DEF Iteration
<1>7. h = [k \in 0..n |-> IF k = 0 THEN w0 ELSE WalkTurn(c, h[k - 1])]
  <2>1. ASSUME NEW k \in 0..n
        PROVE  h[k] = IF k = 0 THEN w0 ELSE WalkTurn(c, h[k - 1])
    <3>1. h[k] = IF k = 0 THEN w0 ELSE g[h[k - 1]]
      <4> HIDE DEF n, w0, g
      <4> QED BY <1>6
    <3>2. CASE k = 0
      BY <3>1, <3>2
    <3>3. CASE k # 0
      <4>1. k - 1 \in 0..n
        BY <1>1, <3>3
      <4>2. h[k - 1] \in WalkState
        BY <4>1
      <4>3. g[h[k - 1]] = WalkTurn(c, h[k - 1])
        BY <4>2
      <4> QED BY <3>1, <3>3, <4>3
    <3> QED BY <3>2, <3>3
  <2>2. h = [k \in 0..n |-> h[k]]
    OBVIOUS
  <2> HIDE DEF n, w0, g
  <2> QED BY <2>1, <2>2
<1>8. f = [k \in 0..n |-> IF k = 0 THEN w0 ELSE WalkTurn(c, f[k - 1])]
  <2> HIDE DEF n, w0
  <2> QED BY <1>7
<1>9. Walk(c) = f[n].visited
  BY DEF Walk
<1> HIDE DEF f, g, w0
<1> DEFINE Good(k) == /\ f[k] \in WalkState /\ WalkInv(c, f[k])
                      /\ f[k].stack = <<>> \/ Work(c, f[k]) <= n - k
           T == { k \in 0..n : Good(k) }
<1>10. 0 \in T
  <2>1. f[0] = w0
    BY <1>1, <1>8
  <2>2. 0 \in 0..n /\ n <= n - 0
    BY <1>1
  <2> HIDE DEF n
  <2> QED BY <1>1, <1>2, <2>1, <2>2
<1>11. ASSUME NEW k \in 1..n, k - 1 \in T PROVE k \in T
  <2>1. k \in 0..n /\ k - 1 \in 0..n
    BY <1>1
  <2>2. f[k] = WalkTurn(c, f[k - 1])
    BY <1>1, <1>8, <2>1
  <2>3. PICK w \in WalkState : w = f[k - 1] /\ WalkInv(c, w)
                                 /\ (w.stack = <<>> \/ Work(c, w) <= n - (k - 1))
    <3>1. Good(k - 1)
      <4> HIDE DEF Good
      <4> QED BY <1>11
    <3> QED BY <3>1
  <2>4. PICK v : v = f[k] /\ v = WalkTurn(c, w)
    BY <2>2, <2>3
  <2>5. /\ v \in WalkState /\ WalkInv(c, v)
        /\ w.stack = <<>> => v = w
        /\ w.stack # <<>> => Work(c, v) < Work(c, w)
    BY <2>3, <2>4, TurnKeeps
  <2>6. CASE w.stack = <<>>
    BY <2>1, <2>4, <2>5, <2>6
  <2>7. CASE w.stack # <<>>
    <3>1. Work(c, v) \in Nat /\ Work(c, w) \in Nat
      BY <2>3, <2>5, WorkType
    <3>2. Work(c, v) < Work(c, w) /\ Work(c, w) <= n - (k - 1)
      BY <2>3, <2>5, <2>7
    <3>3. Work(c, v) <= n - k
      <4> HIDE DEF n
      <4> QED BY <1>1, <3>1, <3>2
    <3> QED BY <2>1, <2>4, <2>5, <3>3
  <2> QED BY <2>6, <2>7
<1>12. n \in T
  <2> HIDE DEF T, n
  <2>1. 0..n \subseteq T
    BY <1>1, <1>10, <1>11, BoundedInduction
  <2> QED BY <1>1, <2>1
<1>13. PICK w \in WalkState : w = f[n] /\ WalkInv(c, w)
                                /\ (w.stack = <<>> \/ Work(c, w) <= n - n)
  BY <1>12
<1>14. w.stack = <<>>
  <2>1. /\ Work(c, w) \in Nat /\ Len(w.stack) \in Nat /\ Len(w.stack) <= Work(c, w)
    BY WorkType
  <2>2. w.stack = <<>> \/ Len(w.stack) = 0
    <3> HIDE DEF n
    <3> QED BY <1>1, <1>13, <2>1
  <2> QED BY <2>2, EmptySeq DEF WalkState
<1>15. ToSet(w.stack) = {}
  BY <1>14 DEF ToSet
<1>16. Walk(c) = w.visited /\ w.visited \in SUBSET ID
  BY <1>9, <1>13 DEF WalkState
<1> QED BY <1>13, <1>15, <1>16 DEF WalkInv, Closed

-----------------------------------------------------------------------------
(* What Compile accepts.                                                   *)

(* The nodes reached from the entry are those the walk visits.             *)
LEMMA EntryReaches ==
  ASSUME b \in Builder, b.entry \in Nodes(b),
         \A n \in Nodes(b) : Targets(b, n) \subseteq Nodes(b)
  PROVE  Reached(b.entry) = Walk(b)
<1>1. /\ b.entry \in Walk(b)
      /\ Closed(b, Walk(b))
      /\ \A S : Closed(b, S) /\ b.entry \in S => Walk(b) \subseteq S
  BY WalkIs
<1>2. Walk(b) \subseteq Nodes(b)
  BY <1>1 DEF Closed
<1>3. Reached(b.entry) \subseteq Walk(b)
  BY <1>1, <1>2 DEF Reached, Closed
<1>4. Walk(b) \subseteq Reached(b.entry)
  BY <1>1, <1>2 DEF Reached, Closed
<1> QED BY <1>3, <1>4

(* Compile's checks come out empty for the valid graphs, and no other.     *)
LEMMA PassesIsValid ==
  ASSUME b \in Builder
  PROVE  Passes(b) <=> Valid
<1> DEFINE owners == { n \in ID : b.edges[n] # <<>> }
           reached == Reached(b.entry)
<1>1. /\ Nodes(b) \subseteq ID /\ 0 \notin Nodes(b) /\ b.entry \in ID
      /\ \A n \in ID : Targets(b, n) \subseteq ID
      /\ \A n \in ID : b.edges[n] = <<>> <=> Targets(b, n) = {}
      /\ b.terminal \in SUBSET ID /\ b.conds \in SUBSET ID /\ b.fans \in SUBSET ID
  BY NodesType, NodeIDAssumption DEF ID, Builder
<1>2. EdgeFaults(b) = {} <=>
        \A n \in owners : /\ n \in Nodes(b) /\ Targets(b, n) \subseteq Nodes(b)
                          /\ n \notin Routered(b)
  BY DEF EdgeFaults, Error
<1>3. Valid <=>
        /\ b.errs = <<>> /\ b.reducer
        /\ b.entry \in Nodes(b) /\ b.terminal \subseteq Nodes(b)
        /\ Routered(b) \subseteq Nodes(b) /\ owners \subseteq Nodes(b)
        /\ \A n \in ID : Targets(b, n) \subseteq Nodes(b)
        /\ b.conds \cap b.fans = {}
        /\ \A n \in Nodes(b) : n \notin Routered(b) \/ b.edges[n] = <<>>
        /\ \A n \in Nodes(b) :
             n \in b.terminal \cup Routered(b) \/ b.edges[n] # <<>>
        /\ Nodes(b) \subseteq reached \/ reached \cap Routered(b) # {}
  <2> HIDE DEF reached
  <2> QED BY DEF Valid, reached
<1>4. DeadEnds(b) = {} <=>
        \A n \in Nodes(b) : n \in b.terminal \cup Routered(b) \/ b.edges[n] # <<>>
  BY DEF DeadEnds
<1>5. ASSUME b.entry \in Nodes(b),
             \A n \in Nodes(b) : Targets(b, n) \subseteq Nodes(b)
      PROVE  Nodes(b) \subseteq ReachableSet(b) <=>
               Nodes(b) \subseteq reached \/ reached \cap Routered(b) # {}
  <2>1. reached = Walk(b)
    BY <1>5, EntryReaches
  <2>2. ReachableSet(b) = IF Walk(b) \cap Routered(b) # {}
                          THEN Walk(b) \cup Nodes(b) ELSE Walk(b)
    BY DEF ReachableSet, Routered
  <2> HIDE DEF reached
  <2> QED BY <2>1, <2>2
<1>6. ASSUME EdgeFaults(b) = {}
      PROVE  \A n \in ID : Targets(b, n) \subseteq Nodes(b)
  BY <1>1, <1>2, <1>6
<1> HIDE DEF reached
<1>7. ASSUME Passes(b) PROVE Valid
  <2>1. /\ b.errs = <<>> /\ b.reducer
        /\ b.entry \in Nodes(b) /\ b.terminal \subseteq Nodes(b)
        /\ EdgeFaults(b) = {} /\ b.conds \subseteq Nodes(b)
        /\ b.conds \cap b.fans = {} /\ b.fans \subseteq Nodes(b)
        /\ DeadEnds(b) = {} /\ Nodes(b) \subseteq ReachableSet(b)
    BY <1>7, ChecksAre
  <2>2. \A n \in ID : Targets(b, n) \subseteq Nodes(b)
    BY <1>6, <2>1
  <2>3. owners \subseteq Nodes(b)
        /\ \A n \in Nodes(b) : n \notin Routered(b) \/ b.edges[n] = <<>>
    BY <1>1, <1>2, <2>1
  <2>4. Nodes(b) \subseteq reached \/ reached \cap Routered(b) # {}
    BY <1>1, <1>5, <2>1, <2>2
  <2>5. Routered(b) \subseteq Nodes(b)
    BY <2>1 DEF Routered
  <2> HIDE DEF owners
  <2> QED BY <1>3, <1>4, <2>1, <2>2, <2>3, <2>4, <2>5
<1>8. ASSUME Valid PROVE Passes(b)
  <2>1. /\ b.errs = <<>> /\ b.reducer
        /\ b.entry \in Nodes(b) /\ b.terminal \subseteq Nodes(b)
        /\ Routered(b) \subseteq Nodes(b) /\ owners \subseteq Nodes(b)
        /\ \A n \in ID : Targets(b, n) \subseteq Nodes(b)
        /\ b.conds \cap b.fans = {}
        /\ \A n \in Nodes(b) : n \notin Routered(b) \/ b.edges[n] = <<>>
        /\ \A n \in Nodes(b) :
             n \in b.terminal \cup Routered(b) \/ b.edges[n] # <<>>
        /\ Nodes(b) \subseteq reached \/ reached \cap Routered(b) # {}
    BY <1>3, <1>8
  <2>2. EdgeFaults(b) = {}
    <3>1. \A n \in owners : n \in ID /\ b.edges[n] # <<>>
      OBVIOUS
    <3> HIDE DEF owners
    <3> QED BY <1>2, <2>1, <3>1
  <2>3. Nodes(b) \subseteq ReachableSet(b)
    BY <1>1, <1>5, <2>1
  <2>4. b.conds \subseteq Nodes(b) /\ b.fans \subseteq Nodes(b)
    BY <2>1 DEF Routered
  <2>5. b.entry # 0 /\ DeadEnds(b) = {}
    BY <1>1, <1>4, <2>1
  <2> QED BY <2>1, <2>2, <2>3, <2>4, <2>5, ChecksAre
<1> QED BY <1>7, <1>8

-----------------------------------------------------------------------------
(* isAcyclic: Kahn's algorithm removes every node unless there is a cycle. *)

LEMMA SortedIs ==
  ASSUME NEW S \in SUBSET Nat, IsFiniteSet(S)
  PROVE  /\ Sorted(S) \in Seq(S) /\ ToSet(Sorted(S)) = S
         /\ IsInjective(Sorted(S))
<1> DEFINE Increasing(q) == \A i, j \in DOMAIN q : i < j => q[i] < q[j]
           Sorts(q, T, n) == q \in [1..n -> T] /\ ToSet(q) = T /\ Increasing(q)
           HasSort(n) == \A T \in SUBSET Nat :
             IsFiniteSet(T) /\ Cardinality(T) = n => \E q : Sorts(q, T, n)
           G == { n \in Nat : HasSort(n) }
<1>1. 0 \in G
  <2> SUFFICES ASSUME NEW T \in SUBSET Nat, IsFiniteSet(T), Cardinality(T) = 0
               PROVE  \E q : Sorts(q, T, 0)
    OBVIOUS
  <2>1. T = {}
    BY FS_EmptySet
  <2>2. Sorts(<<>>, T, 0)
    BY <2>1 DEF ToSet
  <2> QED BY <2>2
<1>2. ASSUME NEW n \in Nat, n \in G PROVE n + 1 \in G
  <2> SUFFICES ASSUME NEW T \in SUBSET Nat, IsFiniteSet(T), Cardinality(T) = n + 1
               PROVE  \E q : Sorts(q, T, n + 1)
    OBVIOUS
  <2>1. T # {}
    BY FS_EmptySet
  <2>2. PICK z \in T : \A y \in T : z >= y
    BY <2>1, MaxOfFinite
  <2> DEFINE U == T \ {z}
  <2>3. U \in SUBSET Nat /\ IsFiniteSet(U) /\ Cardinality(U) = n
    <3>1. IsFiniteSet(U) /\ Cardinality(U) = (n + 1) - 1
      BY FS_RemoveElement
    <3> QED BY <3>1
  <2>4. PICK p : Sorts(p, U, n)
    <3>1. HasSort(n)
      BY <1>2
    <3> HIDE DEF U, Sorts
    <3> QED BY <2>3, <3>1
  <2> DEFINE q == [i \in 1..(n + 1) |-> IF i = n + 1 THEN z ELSE p[i]]
  <2>5. /\ \A i \in 1..(n + 1) : i = n + 1 \/ i \in 1..n
        /\ \A i \in 1..n : i \in 1..(n + 1) /\ i # n + 1
        /\ n + 1 \in 1..(n + 1)
    OBVIOUS
  <2>6. \A i \in 1..n : q[i] = p[i] /\ p[i] \in U
    BY <2>4, <2>5
  <2>7. q[n + 1] = z
    BY <2>5
  <2>8. q \in [1..(n + 1) -> T]
    BY <2>4, <2>5
  <2>9. DOMAIN p = 1..n /\ DOMAIN q = 1..(n + 1)
    BY <2>4
  <2>10. ToSet(q) = T
    <3>1. ToSet(p) = U
      BY <2>4
    <3> HIDE DEF q, Sorts
    <3>2. \A y \in T : y = z \/ y \in ToSet(p)
      BY <3>1
    <3>3. T \subseteq ToSet(q)
      BY <2>5, <2>6, <2>7, <2>9, <3>2 DEF ToSet
    <3>4. ToSet(q) \subseteq T
      BY <2>8 DEF ToSet
    <3> QED BY <3>3, <3>4
  <2>11. Increasing(q)
    <3> SUFFICES ASSUME NEW i \in 1..(n + 1), NEW j \in 1..(n + 1), i < j
                 PROVE  q[i] < q[j]
      BY <2>9
    <3>1. i \in 1..n /\ q[i] = p[i] /\ p[i] \in U
      <4>1. i \in 1..n
        OBVIOUS
      <4> HIDE DEF q, U, Sorts
      <4> QED BY <2>6, <4>1
    <3>2. CASE j = n + 1
      <4>1. p[i] \in Nat /\ z \in Nat /\ p[i] # z /\ z >= p[i]
        BY <2>2, <3>1
      <4> QED BY <2>7, <3>1, <3>2, <4>1
    <3>3. CASE j \in 1..n
      <4>1. p[i] < p[j]
        BY <2>4, <2>9, <3>1, <3>3
      <4> QED BY <2>6, <3>1, <3>3, <4>1
    <3> QED BY <2>5, <3>2, <3>3
  <2>12. Sorts(q, T, n + 1)
    <3> HIDE DEF q, Increasing
    <3> QED BY <2>8, <2>10, <2>11
  <2> HIDE DEF Sorts, q
  <2> QED BY <2>12
<1> DEFINE n == Cardinality(S)
           q == Sorted(S)
<1>3. n \in Nat
  BY FS_CardinalityType
<1>4. n \in G
  <2> HIDE DEF G, n
  <2> QED BY <1>1, <1>2, <1>3, SetInduction
<1>5. Sorts(q, S, n)
  <2>1. \E p : Sorts(p, S, n)
    <3> HIDE DEF Sorts
    <3> QED BY <1>4
  <2> QED BY <2>1 DEF Sorted
<1>6. q \in [1..n -> S] /\ ToSet(q) = S /\ Increasing(q)
  <2> HIDE DEF q, n, Increasing
  <2> QED BY <1>5
<1> HIDE DEF q, n
<1>7. q \in Seq(S)
  BY <1>3, <1>6, IsASeq
<1>8. IsInjective(q)
  <2> SUFFICES ASSUME NEW i \in 1..n, NEW j \in 1..n, q[i] = q[j] PROVE i = j
    BY <1>6 DEF IsInjective
  <2>1. i < j => q[i] < q[j]
    BY <1>6
  <2>2. j < i => q[j] < q[i]
    BY <1>6
  <2>3. i \in Nat /\ j \in Nat
    BY <1>3
  <2>4. q[i] \in Nat /\ q[j] \in Nat
    BY <1>6
  <2> QED BY <2>1, <2>2, <2>3, <2>4
<1> QED BY <1>6, <1>7, <1>8 DEF q

(* isAcyclic's bookkeeping, with the edges in L still counted and the      *)
(* nodes in G off the queue for good.                                      *)
Into(c, L, m) == { e \in L : Target(c, e) = m }

Counted(c, L, G, x) ==
  /\ x.indeg \in [Nodes(c) -> Nat]
  /\ x.queue \in Seq(Nodes(c)) /\ IsInjective(x.queue)
  /\ \A m \in Nodes(c) :
       /\ x.indeg[m] = Cardinality(Into(c, L, m))
       /\ m \in ToSet(x.queue) <=> x.indeg[m] = 0 /\ m \notin G
       /\ m \in G => x.indeg[m] = 0

LEMMA RelaxKeeps ==
  ASSUME NEW c \in Builder, NEW L \in SUBSET Edges(c), NEW G, NEW x,
         Counted(c, L, G, x), NEW e \in L, Target(c, e) \in Nodes(c)
  PROVE  Counted(c, L \ {e}, G, Relax(x, Target(c, e)))
<1> DEFINE to == Target(c, e)
           y == Relax(x, to)
           d == x.indeg[to] - 1
           I(m) == Into(c, L, m)
           J(m) == Into(c, L \ {e}, m)
<1>1. \A m : IsFiniteSet(I(m)) /\ Cardinality(I(m)) \in Nat
  <2>1. IsFiniteSet(Edges(c))
    BY EdgesFinite
  <2>2. ASSUME NEW m PROVE IsFiniteSet(I(m))
    <3>1. I(m) \in SUBSET Edges(c)
      BY DEF Into
    <3> QED BY <2>1, <3>1, FS_Subset
  <2> HIDE DEF I
  <2> QED BY <2>2, FS_CardinalityType
<1>2. e \in I(to) /\ J(to) = I(to) \ {e}
  BY DEF Into
<1>3. \A m : m # to => J(m) = I(m)
  BY DEF Into
<1>4. Cardinality(J(to)) = Cardinality(I(to)) - 1 /\ Cardinality(J(to)) \in Nat
  <2> DEFINE A == I(to)
             B == J(to)
  <2>1. IsFiniteSet(A) /\ e \in A /\ B = A \ {e}
    BY <1>1, <1>2
  <2> HIDE DEF A, B
  <2>2. IsFiniteSet(B) /\ Cardinality(B) = Cardinality(A) - 1
    BY <2>1, FS_RemoveElement
  <2>3. Cardinality(B) \in Nat
    BY <2>2, FS_CardinalityType
  <2> QED BY <2>2, <2>3 DEF A, B
<1>5. /\ x.indeg \in [Nodes(c) -> Nat]
      /\ x.queue \in Seq(Nodes(c)) /\ IsInjective(x.queue)
      /\ \A m \in Nodes(c) :
           /\ x.indeg[m] = Cardinality(I(m))
           /\ m \in ToSet(x.queue) <=> x.indeg[m] = 0 /\ m \notin G
           /\ m \in G => x.indeg[m] = 0
  BY DEF Counted
<1>6. to \in Nodes(c)
  OBVIOUS
<1>7. /\ y.indeg = [x.indeg EXCEPT ![to] = d]
      /\ y.queue = IF d = 0 THEN Append(x.queue, to) ELSE x.queue
  BY DEF Relax
<1> HIDE DEF y, to, I, J
<1>8. d = Cardinality(J(to)) /\ d \in Nat /\ x.indeg[to] # 0
  <2> DEFINE i == Cardinality(I(to))
             j == Cardinality(J(to))
  <2>1. j = i - 1 /\ j \in Nat /\ i \in Nat
    BY <1>1, <1>4
  <2>2. x.indeg[to] = i
    BY <1>5, <1>6
  <2> HIDE DEF i, j
  <2>3. d = j /\ d \in Nat /\ x.indeg[to] # 0
    BY <2>1, <2>2
  <2> QED BY <2>3 DEF j
<1>9. to \notin G /\ to \notin ToSet(x.queue)
  BY <1>5, <1>6, <1>8
<1> HIDE DEF d
<1>10. /\ y.indeg \in [Nodes(c) -> Nat]
       /\ y.indeg[to] = d
       /\ \A m \in Nodes(c) : m # to => y.indeg[m] = x.indeg[m]
  BY <1>5, <1>6, <1>7, <1>8
<1>11. \A m \in Nodes(c) : y.indeg[m] = Cardinality(J(m))
  BY <1>3, <1>5, <1>8, <1>10
<1>12. /\ y.queue \in Seq(Nodes(c)) /\ IsInjective(y.queue)
       /\ ToSet(y.queue) = IF d = 0 THEN ToSet(x.queue) \cup {to}
                                    ELSE ToSet(x.queue)
  <2> DEFINE N == Nodes(c)
             q == x.queue
  <2>1. q \in Seq(N) /\ IsInjective(q) /\ to \in N /\ to \notin ToSet(q)
    BY <1>5, <1>6, <1>9
  <2> HIDE DEF N, q
  <2>2. /\ Append(q, to) \in Seq(N) /\ IsInjective(Append(q, to))
        /\ ToSet(Append(q, to)) = ToSet(q) \cup {to}
    <3>1. ToSet(Append(q, to)) = ToSet(q) \cup {to}
      BY <2>1, AppendSet
    <3> QED BY <2>1, <3>1, AppendProperties, AppendNew
  <2>3. y.queue = IF d = 0 THEN Append(q, to) ELSE q
    BY <1>7 DEF q
  <2> QED BY <2>1, <2>2, <2>3 DEF N, q
<1>13. ASSUME NEW m \in Nodes(c)
       PROVE  /\ m \in ToSet(y.queue) <=> y.indeg[m] = 0 /\ m \notin G
              /\ m \in G => y.indeg[m] = 0
  <2>1. CASE m = to
    BY <1>9, <1>10, <1>12, <2>1
  <2>2. CASE m # to
    BY <1>5, <1>10, <1>12, <2>2
  <2> QED BY <2>1, <2>2
<1> QED BY <1>10, <1>11, <1>12, <1>13 DEF Counted, y, to, J

(* Relaxing every edge of a node takes them off the count.                 *)
LEMMA RelaxedIs ==
  ASSUME NEW c \in Builder, NEW L \in SUBSET Edges(c), NEW G, NEW x,
         Counted(c, L, G, x), x = [indeg |-> x.indeg, queue |-> x.queue],
         NEW id \in ID, Targets(c, id) \subseteq Nodes(c),
         \A i \in DOMAIN c.edges[id] : <<id, i>> \in L
  PROVE  Counted(c, L \ ({id} \X DOMAIN c.edges[id]), G,
                 FoldLeft(Relax, x, c.edges[id]))
<1> DEFINE q == c.edges[id]
           n == Len(q)
           S == [indeg : [Nodes(c) -> Int], queue : Seq(Nodes(c))]
           Op(y, i) == Relax(y, q[i])
           g == [p \in S \X (1..n) |-> Op(p[1], p[2])]
           h1 == CHOOSE h : h = [ t \in SUBSET DOMAIN q |->
                   IF t = {} THEN x ELSE Op(h[t \ {Max(t)}], Max(t)) ]
<1>1. n \in Nat /\ DOMAIN q = 1..n /\ \A i \in 1..n : q[i] \in Nodes(c)
  <2>1. q \in Seq(ID)
    BY DEF Builder
  <2>2. n \in Nat /\ DOMAIN q = 1..n
    BY <2>1, LenProperties
  <2>3. \A i \in DOMAIN q : q[i] \in Targets(c, id)
    BY DEF Targets, ToSet
  <2> QED BY <2>2, <2>3
<1>2. \A y \in S, i \in 1..n : Op(y, i) \in S
  <2> SUFFICES ASSUME NEW y \in S, NEW to \in Nodes(c) PROVE Relax(y, to) \in S
    BY <1>1
  <2>1. y.indeg[to] - 1 \in Int
    OBVIOUS
  <2>2. Append(y.queue, to) \in Seq(Nodes(c))
    BY AppendProperties
  <2> QED BY <2>1, <2>2 DEF Relax
<1>3. g \in [S \X (1..n) -> S]
  BY <1>2
<1>4. x \in S
  BY DEF Counted
<1>5. PICK h \in [SUBSET (1..n) -> S] : Folds(h, x, g, n)
  <2> HIDE DEF g, n, S
  <2> QED BY <1>1, <1>3, <1>4, FoldExists
<1>6. \A t \in SUBSET (1..n) : t # {} => Max(t) \in t
  BY <1>1, MaxOfPlaces
<1>7. h = [ t \in SUBSET DOMAIN q |->
              IF t = {} THEN x ELSE Op(h[t \ {Max(t)}], Max(t)) ]
  <2>1. ASSUME NEW t \in SUBSET (1..n)
        PROVE  h[t] = IF t = {} THEN x ELSE Op(h[t \ {Max(t)}], Max(t))
    <3>1. CASE t = {}
      BY <1>5, <3>1 DEF Folds
    <3>2. CASE t # {}
      <4>1. Max(t) \in 1..n /\ t \ {Max(t)} \in SUBSET (1..n)
        BY <1>6, <3>2
      <4>2. h[t \ {Max(t)}] \in S
        BY <4>1
      <4>3. g[<<h[t \ {Max(t)}], Max(t)>>] = Op(h[t \ {Max(t)}], Max(t))
        <5> HIDE DEF Op, S, n
        <5> QED BY <4>1, <4>2
      <4> HIDE DEF g, Op, n, S
      <4> QED BY <1>5, <3>2, <4>3 DEF Folds
    <3> QED BY <3>1, <3>2
  <2> HIDE DEF Op
  <2>2. h = [t \in SUBSET (1..n) |-> h[t]]
    OBVIOUS
  <2> HIDE DEF n, S
  <2> QED BY <1>1, <2>1, <2>2
<1>8. FoldLeft(Relax, x, q) = h1[1..n]
  BY <1>1 DEF FoldLeft, MapThenFoldSet
<1>9. h1 = [ t \in SUBSET DOMAIN q |->
               IF t = {} THEN x ELSE Op(h1[t \ {Max(t)}], Max(t)) ]
  <2> HIDE DEF Op
  <2> QED BY <1>7
<1> HIDE DEF h1
<1>10. h1[{}] = x /\ \A i \in 1..n : h1[1..i] = Op(h1[1..(i - 1)], i)
  <2>1. h1[{}] = x
    BY <1>9
  <2>2. ASSUME NEW i \in 1..n PROVE h1[1..i] = Op(h1[1..(i - 1)], i)
    <3>1. /\ 1..i \in SUBSET (1..n) /\ 1..i # {}
          /\ Max(1..i) = i /\ (1..i) \ {i} = 1..(i - 1)
      BY <1>1, FirstPlaces
    <3> HIDE DEF Op, n
    <3> QED BY <1>1, <1>9, <3>1
  <2> QED BY <2>1, <2>2
<1> DEFINE Rest(i) == L \ ({id} \X (1..i))
           T == { i \in 0..n : Counted(c, Rest(i), G, h1[1..i]) }
<1> HIDE DEF S, g
<1>11. 0 \in T
  <2>1. 1..0 = {} /\ Rest(0) = L
    OBVIOUS
  <2>2. h1[1..0] = x /\ 0 \in 0..n
    BY <1>1, <1>10, <2>1
  <2>3. Counted(c, Rest(0), G, h1[1..0])
    BY <2>1, <2>2
  <2> HIDE DEF Rest, n
  <2> QED BY <2>2, <2>3
<1>12. ASSUME NEW i \in 1..n, i - 1 \in T PROVE i \in T
  <2> DEFINE e == <<id, i>>
             K == Rest(i - 1)
             y == h1[1..(i - 1)]
  <2>1. Counted(c, K, G, y)
    BY <1>12
  <2>2. e \in K /\ K \in SUBSET Edges(c) /\ Rest(i) = K \ {e}
    <3>1. 1..i = (1..(i - 1)) \cup {i} /\ i \notin 1..(i - 1)
      BY <1>1
    <3>2. <<id, i>> \in L
      BY <1>1
    <3> HIDE DEF q, n
    <3> QED BY <3>1, <3>2
  <2>3. Target(c, e) = q[i] /\ q[i] \in Nodes(c)
    BY <1>1 DEF Target
  <2>4. h1[1..i] = Relax(y, Target(c, e))
    BY <1>10, <2>3
  <2> HIDE DEF e, K, y, Rest
  <2>5. Counted(c, K \ {e}, G, Relax(y, Target(c, e)))
    BY <2>1, <2>2, <2>3, RelaxKeeps
  <2>6. i \in 0..n
    BY <1>1
  <2> HIDE DEF n
  <2> QED BY <2>2, <2>4, <2>5, <2>6
<1>13. n \in T
  <2> HIDE DEF T, n
  <2>1. 0..n \subseteq T
    BY <1>1, <1>11, <1>12, BoundedInduction
  <2> QED BY <1>1, <2>1
<1> QED BY <1>1, <1>8, <1>13

(* What Compile has established when it calls isAcyclic: static edges join *)
(* registered nodes.                                                       *)
Wired(c) ==
  \A n \in ID : /\ Targets(c, n) \subseteq Nodes(c)
                /\ c.edges[n] # <<>> => n \in Nodes(c)

(* A set that n's edges lead into and never out of, and n is not in.       *)
Escapes(c, n) ==
  \E S \in SUBSET Nodes(c) :
    Closed(c, S) /\ n \notin S /\ Targets(c, n) \subseteq S

(* A node whose count is 0 has no edge from a node not removed.            *)
LEMMA CountIsZero ==
  ASSUME NEW c \in Builder, NEW R \in SUBSET Nodes(c), NEW s,
         Counted(c, Left(c, R), R, s), NEW m \in Nodes(c)
  PROVE  s.indeg[m] = 0 <=> \A k \in ID \ R : m \notin Targets(c, k)
<1> DEFINE I == Into(c, Left(c, R), m)
<1>1. IsFiniteSet(I)
  <2>1. IsFiniteSet(Edges(c)) /\ I \in SUBSET Edges(c)
    BY EdgesFinite DEF Into, Left
  <2> QED BY <2>1, FS_Subset
<1>2. s.indeg[m] = 0 <=> I = {}
  <2>1. s.indeg[m] = Cardinality(I)
    BY DEF Counted
  <2> HIDE DEF I
  <2> QED BY <1>1, <2>1, FS_EmptySet
<1>3. \A k \in ID : DOMAIN c.edges[k] = 1..Len(c.edges[k])
  BY LenProperties DEF Builder
<1>4. ASSUME NEW k \in ID \ R, m \in Targets(c, k) PROVE I # {}
  <2>1. PICK i \in 1..Len(c.edges[k]) : m = c.edges[k][i]
    BY <1>3, <1>4 DEF Targets, ToSet
  <2>2. <<k, i>> \in Edges(c)
    BY EdgesFinite
  <2>3. <<k, i>> \in I
    BY <2>1, <2>2 DEF Into, Left, Target
  <2> QED BY <2>3
<1>5. ASSUME NEW e \in I PROVE \E k \in ID \ R : m \in Targets(c, k)
  <2>1. e \in Edges(c) /\ e[1] \notin R /\ Target(c, e) = m
    BY DEF Into, Left
  <2>2. PICK k \in ID : \E i \in 1..Len(c.edges[k]) : e = <<k, i>>
    BY <2>1, EdgesFinite
  <2>3. PICK i \in 1..Len(c.edges[k]) : e = <<k, i>>
    BY <2>2
  <2>4. k \notin R /\ m = c.edges[k][i] /\ i \in DOMAIN c.edges[k]
    BY <1>3, <2>1, <2>3 DEF Target
  <2>5. m \in Targets(c, k)
    BY <2>4 DEF Targets, ToSet
  <2> QED BY <2>4, <2>5
<1> HIDE DEF I
<1> QED BY <1>2, <1>4, <1>5

(* What one removal does: it takes id, which no removed node has been, off *)
(* the queue and its edges off the count.                                  *)
Removes(c, R, s, id, u) ==
  /\ id \in Nodes(c) \ R
  /\ Counted(c, Left(c, R \cup {id}), R \cup {id}, u)
  /\ Escapes(c, id)
  /\ u.removed = s.removed + 1
  /\ u = [indeg |-> u.indeg, queue |-> u.queue, removed |-> u.removed]

LEMMA RemovalKeeps ==
  ASSUME NEW c \in Builder, Wired(c), NEW R \in SUBSET Nodes(c), NEW s,
         Counted(c, Left(c, R), R, s), s.queue # <<>>,
         NEW id, id = Head(s.queue), NEW u, u = Removal(c, s)
  PROVE  Removes(c, R, s, id, u)
<1> DEFINE q == s.queue
           N == Nodes(c)
           L == Left(c, R)
           G == R \cup {id}
           x == [indeg |-> s.indeg, queue |-> Tail(q)]
           t == FoldLeft(Relax, x, c.edges[id])
<1>1. /\ s.indeg \in [N -> Nat]
      /\ q \in Seq(N) /\ IsInjective(q)
      /\ \A m \in N :
           /\ s.indeg[m] = Cardinality(Into(c, L, m))
           /\ m \in ToSet(q) <=> s.indeg[m] = 0 /\ m \notin R
           /\ m \in R => s.indeg[m] = 0
  BY DEF Counted
<1>2. /\ id \in ToSet(q)
      /\ Tail(q) \in Seq(N) /\ IsInjective(Tail(q))
      /\ \A e : e \in ToSet(Tail(q)) <=> e \in ToSet(q) /\ e # id
  <2>1. q # <<>> /\ id = Head(q)
    OBVIOUS
  <2> HIDE DEF q, N
  <2> QED BY <1>1, <2>1, TailSet
<1>3. id \in N \ R /\ s.indeg[id] = 0 /\ id \in ID
  <2>1. ToSet(q) \subseteq N
    BY <1>1, ElementOfSeq, LenProperties DEF ToSet
  <2>2. N \subseteq ID
    BY NodesType DEF ID
  <2> HIDE DEF q, N
  <2> QED BY <1>1, <1>2, <2>1, <2>2
<1>4. Counted(c, L, G, x)
  <2>1. x.indeg = s.indeg /\ x.queue = Tail(q)
    OBVIOUS
  <2> HIDE DEF x, q, N, L
  <2>2. ASSUME NEW m \in N
        PROVE  /\ x.indeg[m] = Cardinality(Into(c, L, m))
               /\ m \in ToSet(x.queue) <=> x.indeg[m] = 0 /\ m \notin G
               /\ m \in G => x.indeg[m] = 0
    BY <1>1, <1>2, <1>3, <2>1
  <2> QED BY <1>1, <1>2, <2>1, <2>2 DEF Counted, N
<1>5. Counted(c, L \ ({id} \X DOMAIN c.edges[id]), G, t)
  <2>1. L \in SUBSET Edges(c)
    BY DEF Left
  <2>2. x = [indeg |-> x.indeg, queue |-> x.queue]
    OBVIOUS
  <2>3. Targets(c, id) \subseteq Nodes(c)
    BY <1>3 DEF Wired
  <2>4. \A i \in DOMAIN c.edges[id] : <<id, i>> \in L
    <3>1. DOMAIN c.edges[id] = 1..Len(c.edges[id])
      BY <1>3, LenProperties DEF Builder
    <3>2. \A i \in DOMAIN c.edges[id] : <<id, i>> \in Edges(c)
      BY <1>3, <3>1, EdgesFinite
    <3> QED BY <1>3, <3>2 DEF Left
  <2> HIDE DEF x, L, G
  <2> QED BY <1>3, <1>4, <2>1, <2>2, <2>3, <2>4, RelaxedIs
<1>6. L \ ({id} \X DOMAIN c.edges[id]) = Left(c, G)
  <2>1. \A e \in Edges(c) : e[1] = id <=> e \in {id} \X DOMAIN c.edges[id]
    <3> SUFFICES ASSUME NEW e \in Edges(c)
                 PROVE  e[1] = id <=> e \in {id} \X DOMAIN c.edges[id]
      OBVIOUS
    <3>1. PICK m \in ID : \E i \in 1..Len(c.edges[m]) : e = <<m, i>>
      BY EdgesFinite
    <3>2. PICK i \in 1..Len(c.edges[m]) : e = <<m, i>>
      BY <3>1
    <3>3. DOMAIN c.edges[m] = 1..Len(c.edges[m])
      BY LenProperties DEF Builder
    <3>4. CASE m = id
      BY <3>2, <3>3, <3>4
    <3>5. CASE m # id
      BY <3>2, <3>5
    <3> QED BY <3>4, <3>5
  <2> QED BY <2>1 DEF Left
<1>7. /\ u.indeg = t.indeg /\ u.queue = t.queue
      /\ u.removed = s.removed + 1
      /\ u = [indeg |-> u.indeg, queue |-> u.queue, removed |-> u.removed]
  <2>1. u = [indeg |-> t.indeg, queue |-> t.queue, removed |-> s.removed + 1]
    BY DEF Removal
  <2> HIDE DEF t
  <2> QED BY <2>1
<1>8. Counted(c, Left(c, G), G, u)
  <2>1. Counted(c, Left(c, G), G, t)
    BY <1>5, <1>6
  <2> HIDE DEF t, G
  <2> QED BY <1>7, <2>1 DEF Counted
<1>9. Escapes(c, id)
  <2> DEFINE S == N \ G
  <2>1. ASSUME NEW k \in ID \ R, NEW m \in Targets(c, k)
        PROVE  m \in S
    <3>1. m \in N
      BY DEF Wired
    <3>2. s.indeg[m] # 0
      <4>1. ~ \A j \in ID \ R : m \notin Targets(c, j)
        OBVIOUS
      <4> QED BY <3>1, <4>1, CountIsZero
    <3> QED BY <1>1, <1>3, <3>1, <3>2
  <2>2. Targets(c, id) \subseteq S
    BY <1>3, <2>1
  <2>3. N \subseteq ID
    BY NodesType DEF ID
  <2>4. Closed(c, S)
    BY <2>1, <2>3 DEF Closed
  <2> QED BY <2>2, <2>4 DEF Escapes
<1> QED BY <1>3, <1>7, <1>8, <1>9 DEF Removes

(* What holds of Kahn's algorithm after any number of removals.            *)
KahnInv(c, s) ==
  \E R \in SUBSET Nodes(c) :
    /\ Counted(c, Left(c, R), R, s)
    /\ s.removed = Cardinality(R)
    /\ \A n \in R : Escapes(c, n)

KahnState(c) ==
  { s \in [indeg : [Nodes(c) -> Nat], queue : Seq(Nodes(c)), removed : Nat] :
      KahnInv(c, s) }

(* Nodes are registered once each.                                         *)
LEMMA NodesCounted ==
  ASSUME NEW c \in Builder
  PROVE  /\ IsFiniteSet(Nodes(c))
         /\ Len(c.order) \in Nat
         /\ Cardinality(Nodes(c)) = Len(c.order)
<1> DEFINE q == c.order
           n == Len(q)
           N == Nodes(c)
<1>1. q \in Seq(NodeID) /\ IsInjective(q)
  BY DEF Builder
<1>2. n \in Nat /\ DOMAIN q = 1..n /\ q \in [1..n -> NodeID]
  BY <1>1, LenProperties
<1>3. IsFiniteSet(1..n) /\ Cardinality(1..n) = n
  <2>1. 1 \in Int /\ n \in Int
    BY <1>2
  <2> HIDE DEF n
  <2>2. IsFiniteSet(1..n) /\ Cardinality(1..n) = IF 1 > n THEN 0 ELSE (n - 1) + 1
    BY <2>1, FS_Interval
  <2>3. Cardinality(1..n) = n
    BY <1>2, <2>2
  <2> QED BY <2>2, <2>3
<1>4. N = { q[i] : i \in 1..n }
  BY <1>2 DEF Nodes, ToSet
<1>5. q \in Surjection(1..n, N) /\ q \in Injection(1..n, N)
  <2>1. q \in [1..n -> N]
    <3>1. \A i \in 1..n : q[i] \in N
      BY <1>4
    <3> HIDE DEF q, n, N
    <3> QED BY <1>2, <3>1
  <2> HIDE DEF q, n, N
  <2>2. \A m \in N : \E i \in 1..n : q[i] = m
    BY <1>4
  <2> QED BY <1>1, <1>2, <2>1, <2>2 DEF Surjection, Injection, IsInjective
<1> HIDE DEF q, n, N
<1>6. /\ IsFiniteSet(N)
      /\ Cardinality(N) = Cardinality(1..n) <=> q \in Injection(1..n, N)
  BY <1>3, <1>5, FS_Surjection
<1> QED BY <1>2, <1>3, <1>5, <1>6 DEF q, n, N

LEMMA RemovalStep ==
  ASSUME NEW c \in Builder, Wired(c), NEW s \in KahnState(c),
         NEW u, u = Removal(c, s)
  PROVE  /\ u \in KahnState(c)
         /\ s.queue = <<>> => u = s
         /\ s.queue # <<>> => u.removed = s.removed + 1
<1>1. CASE s.queue = <<>>
  BY <1>1 DEF Removal
<1>2. CASE s.queue # <<>>
  <2>1. s.removed \in Nat /\ KahnInv(c, s)
    BY DEF KahnState
  <2>2. PICK R \in SUBSET Nodes(c) :
          /\ Counted(c, Left(c, R), R, s)
          /\ s.removed = Cardinality(R)
          /\ \A n \in R : Escapes(c, n)
    BY <2>1 DEF KahnInv
  <2>3. PICK id : id = Head(s.queue)
    OBVIOUS
  <2>4. /\ id \in Nodes(c) \ R
        /\ Counted(c, Left(c, R \cup {id}), R \cup {id}, u)
        /\ Escapes(c, id)
        /\ u.removed = s.removed + 1
        /\ u = [indeg |-> u.indeg, queue |-> u.queue, removed |-> u.removed]
    <3>1. Removes(c, R, s, id, u)
      BY <1>2, <2>2, <2>3, RemovalKeeps
    <3> QED BY <3>1 DEF Removes
  <2> DEFINE G == R \cup {id}
  <2>5. G \in SUBSET Nodes(c) /\ Cardinality(G) = u.removed /\ u.removed \in Nat
    <3>1. IsFiniteSet(R) /\ id \notin R
      BY <2>4, NodesCounted, FS_Subset
    <3>2. Cardinality(G) = Cardinality(R) + 1
      BY <3>1, FS_AddElement
    <3> HIDE DEF G
    <3>3. Cardinality(G) = u.removed /\ u.removed \in Nat
      BY <2>1, <2>2, <2>4, <3>2
    <3> QED BY <2>4, <3>3 DEF G
  <2>6. \A n \in G : Escapes(c, n)
    BY <2>2, <2>4
  <2>7. KahnInv(c, u)
    BY <2>4, <2>5, <2>6 DEF KahnInv
  <2>8. u.indeg \in [Nodes(c) -> Nat] /\ u.queue \in Seq(Nodes(c))
    BY <2>4 DEF Counted
  <2>9. u \in KahnState(c)
    <3> DEFINE S == [indeg : [Nodes(c) -> Nat], queue : Seq(Nodes(c)), removed : Nat]
    <3>1. u \in S
      BY <2>4, <2>5, <2>8
    <3> HIDE DEF S
    <3> QED BY <2>7, <3>1 DEF KahnState, S
  <2> QED BY <1>2, <2>4, <2>9
<1> QED BY <1>1, <1>2

(* isAcyclic stops with an empty queue or with every node removed.         *)
LEMMA KahnEnds ==
  ASSUME NEW c \in Builder, Wired(c)
  PROVE  \E s \in KahnState(c) :
           /\ IsAcyclic(c) <=> s.removed = Len(c.order)
           /\ s.queue = <<>> \/ s.removed = Len(c.order)
<1> DEFINE n == Len(c.order)
           N == Nodes(c)
           K == KahnState(c)
           roots == { m \in N : Indegree(c)[m] = 0 }
           s0 == [indeg |-> Indegree(c), queue |-> Sorted(roots), removed |-> 0]
           g == [s \in K |-> Removal(c, s)]
           f == CHOOSE kahn : kahn = [ k \in 0..n |->
                  IF k = 0 THEN s0 ELSE Removal(c, kahn[k - 1]) ]
<1>1. n \in Nat
  BY NodesCounted
<1>2. s0 \in K
  <2>1. /\ IsFiniteSet(Edges(c)) /\ Left(c, {}) = Edges(c)
    BY EdgesFinite DEF Left
  <2>2. \A m : IsFiniteSet(Into(c, Edges(c), m))
    <3> SUFFICES ASSUME NEW m PROVE IsFiniteSet(Into(c, Edges(c), m))
      OBVIOUS
    <3>1. Into(c, Edges(c), m) \in SUBSET Edges(c)
      BY DEF Into
    <3> QED BY <2>1, <3>1, FS_Subset
  <2>3. Indegree(c) = [m \in N |-> Cardinality(Into(c, Edges(c), m))]
    BY DEF Indegree, Into
  <2>4. \A m : Cardinality(Into(c, Edges(c), m)) \in Nat
    BY <2>2, FS_CardinalityType
  <2>5. Indegree(c) \in [N -> Nat]
    BY <2>3, <2>4
  <2>6. roots \in SUBSET Nat /\ IsFiniteSet(roots) /\ roots \subseteq N
    <3>1. N \subseteq Nat /\ IsFiniteSet(N)
      BY NodesCounted, NodesType, NodeIDAssumption
    <3>2. roots \subseteq N
      OBVIOUS
    <3> HIDE DEF roots, N
    <3> QED BY <3>1, <3>2, FS_Subset
  <2>7. /\ Sorted(roots) \in Seq(roots) /\ ToSet(Sorted(roots)) = roots
        /\ IsInjective(Sorted(roots))
    <3> HIDE DEF roots
    <3> QED BY <2>6, SortedIs
  <2>8. Sorted(roots) \in Seq(N)
    <3> HIDE DEF roots, N
    <3> QED BY <2>6, <2>7, SeqMonotonic
  <2>9. /\ s0.indeg = Indegree(c) /\ s0.queue = Sorted(roots) /\ s0.removed = 0
        /\ s0 \in [indeg : [N -> Nat], queue : Seq(N), removed : Nat]
    <3> HIDE DEF roots, N
    <3> QED BY <2>5, <2>8
  <2>10. Counted(c, Left(c, {}), {}, s0)
    <3>1. \A m \in N : m \in ToSet(Sorted(roots)) <=> Indegree(c)[m] = 0
      <4>1. \A m \in N : m \in roots <=> Indegree(c)[m] = 0
        OBVIOUS
      <4> HIDE DEF roots
      <4> QED BY <2>7, <4>1
    <3>2. \A m \in N : Indegree(c)[m] = Cardinality(Into(c, Edges(c), m))
      BY <2>3
    <3> HIDE DEF s0, roots
    <3> QED BY <2>1, <2>5, <2>7, <2>8, <2>9, <3>1, <3>2 DEF Counted
  <2>11. KahnInv(c, s0)
    <3>1. Cardinality({}) = 0
      BY FS_EmptySet
    <3> HIDE DEF s0
    <3> QED BY <2>9, <2>10, <3>1 DEF KahnInv
  <2> HIDE DEF s0
  <2> QED BY <2>9, <2>11 DEF KahnState
<1>3. \A s \in K : Removal(c, s) \in K
  BY RemovalStep
<1>4. g \in [K -> K]
  <2> HIDE DEF K
  <2> QED BY <1>3
<1>5. PICK h \in [0..n -> K] : Iteration(h, s0, g, n)
  <2> HIDE DEF n, s0, g, K
  <2> QED BY <1>1, <1>2, <1>4, IterationExists
<1>6. h = [k \in 0..n |-> IF k = 0 THEN s0 ELSE g[h[k - 1]]]
  BY <1>5 DEF Iteration
<1>7. h = [k \in 0..n |-> IF k = 0 THEN s0 ELSE Removal(c, h[k - 1])]
  <2>1. ASSUME NEW k \in 0..n
        PROVE  h[k] = IF k = 0 THEN s0 ELSE Removal(c, h[k - 1])
    <3>1. h[k] = IF k = 0 THEN s0 ELSE g[h[k - 1]]
      <4> HIDE DEF n, s0, g
      <4> QED BY <1>6
    <3>2. CASE k = 0
      BY <3>1, <3>2
    <3>3. CASE k # 0
      <4>1. k - 1 \in 0..n
        BY <1>1, <3>3
      <4>2. h[k - 1] \in K
        BY <4>1
      <4>3. g[h[k - 1]] = Removal(c, h[k - 1])
        <5> HIDE DEF K
        <5> QED BY <4>2
      <4> QED BY <3>1, <3>3, <4>3
    <3> QED BY <3>2, <3>3
  <2>2. h = [k \in 0..n |-> h[k]]
    OBVIOUS
  <2> HIDE DEF n, s0, g, K
  <2> QED BY <2>1, <2>2
<1>8. f = [k \in 0..n |-> IF k = 0 THEN s0 ELSE Removal(c, f[k - 1])]
  <2> HIDE DEF n, s0
  <2> QED BY <1>7
<1>9. IsAcyclic(c) <=> f[n].removed = n
  BY DEF IsAcyclic
<1> HIDE DEF f, g, s0
<1> DEFINE Good(k) == f[k] \in K /\ (f[k].queue = <<>> \/ f[k].removed = k)
           T == { k \in 0..n : Good(k) }
<1>10. 0 \in T
  <2>1. 0 \in 0..n
    BY <1>1
  <2>2. f[0] = s0
    BY <1>8, <2>1
  <2>3. s0.removed = 0
    BY DEF s0
  <2> HIDE DEF n, K
  <2> QED BY <1>2, <2>1, <2>2, <2>3
<1>11. ASSUME NEW k \in 1..n, k - 1 \in T PROVE k \in T
  <2>1. k \in 0..n /\ k # 0
    BY <1>1
  <2>2. f[k] = Removal(c, f[k - 1])
    BY <1>8, <2>1
  <2>3. Good(k - 1)
    <3> HIDE DEF Good
    <3> QED BY <1>11
  <2>4. PICK s \in K : s = f[k - 1] /\ (s.queue = <<>> \/ s.removed = k - 1)
    BY <2>3
  <2>5. PICK u : u = f[k] /\ u = Removal(c, s)
    BY <2>2, <2>4
  <2>6. /\ u \in K
        /\ s.queue = <<>> => u = s
        /\ s.queue # <<>> => u.removed = s.removed + 1
    BY <2>4, <2>5, RemovalStep
  <2>7. s.queue # <<>> => u.removed = k
    BY <2>1, <2>4, <2>6
  <2>8. Good(k)
    <3> HIDE DEF K
    <3> QED BY <2>5, <2>6, <2>7
  <2> HIDE DEF Good, n
  <2> QED BY <2>1, <2>8
<1>12. n \in T
  <2> HIDE DEF T, n
  <2>1. 0..n \subseteq T
    BY <1>1, <1>10, <1>11, BoundedInduction
  <2> QED BY <1>1, <2>1
<1>13. Good(n)
  <2> HIDE DEF Good
  <2> QED BY <1>12
<1> QED BY <1>9, <1>13

(* No target of a node leads back to it.                                   *)
NoCycle == \A n \in Nodes(b) : \A m \in Targets(b, n) : n \notin Reached(m)

(* A set of nodes each of which has a predecessor in it holds a cycle:     *)
(* take one that the fewest of them lead to.                               *)
LEMMA PredecessorsCycle ==
  ASSUME b \in Builder, Wired(b), NEW U \in SUBSET Nodes(b), U # {},
         \A n \in U : \E k \in U : n \in Targets(b, k)
  PROVE  ~NoCycle
<1> SUFFICES ASSUME NoCycle PROVE FALSE
  OBVIOUS
<1> DEFINE P(n) == { x \in U : n \in Reached(x) }
           sizes == { Cardinality(P(n)) : n \in U }
<1>1. \A n \in U : P(n) \in SUBSET U /\ IsFiniteSet(P(n)) /\ Cardinality(P(n)) \in Nat
  <2> SUFFICES ASSUME NEW n \in U
               PROVE  P(n) \in SUBSET U /\ IsFiniteSet(P(n)) /\ Cardinality(P(n)) \in Nat
    OBVIOUS
  <2>1. P(n) \in SUBSET U /\ P(n) \in SUBSET Nodes(b) /\ IsFiniteSet(Nodes(b))
    BY NodesCounted
  <2> HIDE DEF P
  <2> QED BY <2>1, FS_Subset, FS_CardinalityType
<1>2. PICK n \in U : \A x \in U : Cardinality(P(n)) <= Cardinality(P(x))
  <2>1. sizes \in SUBSET Nat /\ sizes # {}
    <3> HIDE DEF P
    <3> QED BY <1>1
  <2>2. Min(sizes) \in sizes /\ \A y \in sizes : Min(sizes) <= y
    <3> HIDE DEF sizes
    <3> QED BY <2>1, MinInSet
  <2>3. PICK n \in U : Min(sizes) = Cardinality(P(n))
    BY <2>2
  <2>4. \A x \in U : Cardinality(P(x)) \in sizes
    OBVIOUS
  <2> HIDE DEF P, sizes
  <2> QED BY <2>2, <2>3, <2>4
<1>3. PICK k \in U : n \in Targets(b, k)
  OBVIOUS
<1>4. k \notin Reached(n)
  BY <1>3 DEF NoCycle
<1>5. n \in P(n) /\ n \notin P(k)
  BY <1>4 DEF Reached
<1>6. P(k) \subseteq P(n)
  BY <1>3 DEF Reached
<1>7. Cardinality(P(k)) < Cardinality(P(n))
  <2> DEFINE A == P(n)
             B == P(k)
  <2>1. IsFiniteSet(A) /\ B \in SUBSET A /\ A # B
    BY <1>1, <1>5, <1>6
  <2>2. Cardinality(A) \in Nat /\ Cardinality(B) \in Nat
    BY <1>1
  <2> HIDE DEF A, B
  <2>3. Cardinality(B) <= Cardinality(A) /\ Cardinality(A) # Cardinality(B)
    BY <2>1, FS_Subset
  <2> QED BY <2>2, <2>3 DEF A, B
<1>8. Cardinality(P(n)) <= Cardinality(P(k))
  BY <1>2
<1>9. Cardinality(P(n)) \in Nat /\ Cardinality(P(k)) \in Nat
  BY <1>1
<1> HIDE DEF P
<1> QED BY <1>7, <1>8, <1>9

(* Kahn's algorithm removes every node of exactly the graphs without a     *)
(* cycle.                                                                  *)
LEMMA KahnIsExact ==
  ASSUME b \in Builder, Wired(b)
  PROVE  IsAcyclic(b) <=> NoCycle
<1> DEFINE N == Nodes(b)
           M == Len(b.order)
<1>1. PICK s \in KahnState(b) :
        /\ IsAcyclic(b) <=> s.removed = M
        /\ s.queue = <<>> \/ s.removed = M
  BY KahnEnds
<1>2. KahnInv(b, s)
  BY DEF KahnState
<1>3. PICK R \in SUBSET N :
        /\ Counted(b, Left(b, R), R, s)
        /\ s.removed = Cardinality(R)
        /\ \A n \in R : Escapes(b, n)
  BY <1>2 DEF KahnInv
<1>4. IsFiniteSet(N) /\ Cardinality(N) = M
  BY NodesCounted
<1>5. N \subseteq ID
  BY NodesType DEF ID
<1>6. CASE R = N
  <2>1. s.removed = M
    BY <1>3, <1>4, <1>6
  <2>2. ASSUME NEW n \in N, NEW m \in Targets(b, n) PROVE n \notin Reached(m)
    <3>1. PICK S \in SUBSET N : Closed(b, S) /\ n \notin S /\ Targets(b, n) \subseteq S
      BY <1>3, <1>6 DEF Escapes
    <3> QED BY <2>2, <3>1 DEF Reached, Closed
  <2> QED BY <1>1, <2>1, <2>2 DEF NoCycle
<1>7. CASE R # N
  <2> DEFINE U == N \ R
  <2>1. s.removed # M
    <3> HIDE DEF N, M
    <3> QED BY <1>3, <1>4, <1>7, FS_Subset
  <2>2. s.queue = <<>> /\ ~IsAcyclic(b)
    BY <1>1, <2>1
  <2>3. ToSet(s.queue) = {}
    BY <2>2 DEF ToSet
  <2>4. \A n \in U : s.indeg[n] # 0
    BY <1>3, <2>3 DEF Counted
  <2>5. ASSUME NEW n \in U PROVE \E k \in U : n \in Targets(b, k)
    <3>1. s.indeg[n] # 0
      BY <2>4
    <3>2. PICK k \in ID \ R : n \in Targets(b, k)
      BY <1>3, <3>1, CountIsZero
    <3>3. b.edges[k] # <<>>
      BY <3>2, NodesType
    <3>4. k \in N
      BY <3>2, <3>3 DEF Wired
    <3> QED BY <3>2, <3>4
  <2>6. U \in SUBSET N /\ U # {}
    BY <1>7
  <2> HIDE DEF U
  <2>7. ~NoCycle
    BY <2>5, <2>6, PredecessorsCycle
  <2> QED BY <2>2, <2>7
<1> QED BY <1>6, <1>7

LEMMA PassesIsWired ==
  ASSUME b \in Builder, Passes(b)
  PROVE  Wired(b)
<1>1. EdgeFaults(b) = {}
  BY ChecksAre
<1> QED BY <1>1, NoEdgeFaults, NodesType DEF Wired

-----------------------------------------------------------------------------
(* The invariants.                                                         *)

LEMMA TypeInit == Init => TypeOK
<1> SUFFICES ASSUME Init PROVE TypeOK
  OBVIOUS
<1> QED BY BuilderAssumption DEF Init, TypeOK

(* A builder call leaves a Builder.                                        *)
LEMMA CallKeepsType ==
  ASSUME TypeOK, NEW result \in Builder, Called(result)
  PROVE  TypeOK'
<1>1. b' \in Builder /\ UNCHANGED <<compiled, rejected>>
  BY DEF Called
<1>2. calls' \in 0..MaxCalls
  BY BuilderAssumption DEF Called, TypeOK
<1> QED BY <1>1, <1>2 DEF TypeOK

LEMMA TypeStep == TypeOK /\ [Next]_vars => TypeOK'
<1> SUFFICES ASSUME TypeOK, [Next]_vars PROVE TypeOK'
  OBVIOUS
<1> USE DEF ID
<1>1. b \in Builder
  BY DEF TypeOK
<1>2. ASSUME NEW kind \in {"compile", "duplicate"}
      PROVE  Refused(kind) \in Builder
  <2>1. Append(b.errs, kind) \in Seq({"compile", "duplicate"})
    BY <1>1, AppendProperties DEF Builder
  <2> QED BY <1>1, <2>1 DEF Refused, Builder
<1>3. ASSUME NEW id \in ID, NEW isNil \in BOOLEAN, AddNode(id, isNil)
      PROVE  TypeOK'
  <2>1. CASE id = 0 \/ isNil
    BY <1>2, <1>3, <2>1, CallKeepsType DEF AddNode
  <2>2. CASE ~(id = 0 \/ isNil) /\ id \in Nodes(b)
    BY <1>2, <1>3, <2>2, CallKeepsType DEF AddNode
  <2>3. CASE ~(id = 0 \/ isNil) /\ id \notin Nodes(b)
    <3>1. /\ Append(b.order, id) \in Seq(NodeID)
          /\ IsInjective(Append(b.order, id))
      <4>1. /\ b.order \in Seq(NodeID) /\ IsInjective(b.order)
            /\ id \in NodeID /\ id \notin ToSet(b.order)
        BY <1>1, <2>3 DEF Builder, Nodes
      <4> QED BY <4>1, AppendProperties, AppendNew
    <3>2. [b EXCEPT !.order = Append(@, id)] \in Builder
      BY <1>1, <3>1 DEF Builder
    <3> QED BY <1>3, <2>3, <3>2, CallKeepsType DEF AddNode
  <2> QED BY <2>1, <2>2, <2>3
<1>4. ASSUME NEW from \in ID, NEW to \in ID, AddEdge(from, to)
      PROVE  TypeOK'
  <2>1. Append(b.edges[from], to) \in Seq(ID)
    BY <1>1, AppendProperties DEF Builder
  <2>2. [b EXCEPT !.edges[from] = Append(@, to)] \in Builder
    BY <1>1, <2>1 DEF Builder
  <2> QED BY <1>4, <2>2, CallKeepsType DEF AddEdge
<1>5. ASSUME NEW from \in ID, AddConditionalEdge(from)
      PROVE  TypeOK'
  <2>1. [b EXCEPT !.conds = @ \cup {from}] \in Builder
    BY <1>1 DEF Builder
  <2> QED BY <1>2, <1>5, <2>1, CallKeepsType DEF AddConditionalEdge
<1>6. ASSUME NEW from \in ID, AddFanEdge(from)
      PROVE  TypeOK'
  <2>1. [b EXCEPT !.fans = @ \cup {from}] \in Builder
    BY <1>1 DEF Builder
  <2> QED BY <1>2, <1>6, <2>1, CallKeepsType DEF AddFanEdge
<1>7. ASSUME NEW id \in ID, SetEntryPoint(id)
      PROVE  TypeOK'
  <2>1. [b EXCEPT !.entry = id] \in Builder
    BY <1>1 DEF Builder
  <2> QED BY <1>7, <2>1, CallKeepsType DEF SetEntryPoint
<1>8. ASSUME NEW ids \in SUBSET ID, SetTerminal(ids)
      PROVE  TypeOK'
  <2>1. [b EXCEPT !.terminal = @ \cup ids] \in Builder
    BY <1>1 DEF Builder
  <2> QED BY <1>8, <2>1, CallKeepsType DEF SetTerminal
<1>9. ASSUME NEW o \in Options, Compile(o)
      PROVE  TypeOK'
  <2>1. UNCHANGED <<b, calls>> /\ o \in Option
    BY <1>9, BuilderAssumption DEF Compile
  <2>2. CASE Passes(b) /\ TypesMatch(o)
    <3>1. CompiledRunner(b, o) \in Runner
      BY <1>1, <2>1, <2>2, CompiledIsRunnable
    <3>2. IsAcyclic(b) \in BOOLEAN
      BY DEF IsAcyclic
    <3>3. /\ compiled' = {[runner |-> CompiledRunner(b, o), acyclic |-> IsAcyclic(b)]}
          /\ rejected' = rejected
      BY <1>9, <2>2 DEF Compile
    <3> QED BY <2>1, <3>1, <3>2, <3>3 DEF TypeOK
  <2>3. CASE ~(Passes(b) /\ TypesMatch(o))
    <3>1. Rejections(b) \subseteq Errors
      BY <1>1, RejectionsType
    <3> DEFINE All == [kind : ErrorKind, at : SUBSET ID]
    <3>2. Error("mismatch", {}) \in All /\ Errors \subseteq All
      BY DEF Error, Errors, ErrorKind
    <3>3. \E e \in All : rejected' = {e}
      <4> HIDE DEF All
      <4> QED BY <1>9, <2>3, <3>1, <3>2 DEF Compile
    <3>4. compiled' = compiled
      BY <1>9, <2>3 DEF Compile
    <3> QED BY <2>1, <3>3, <3>4 DEF TypeOK
  <2> QED BY <2>2, <2>3
<1>10. CASE Compiled
  BY <1>10 DEF Compiled, vars, TypeOK
<1>11. CASE UNCHANGED vars
  BY <1>11 DEF vars, TypeOK
<1> QED BY <1>3, <1>4, <1>5, <1>6, <1>7, <1>8, <1>9, <1>10, <1>11 DEF Next

(* Every variable of the Builder keeps its type (graph.go:65-76).          *)
THEOREM TypeCorrect == Spec => []TypeOK
<1> QED BY TypeInit, TypeStep, PTL DEF Spec

LEMMA RunnableStep ==
  TypeOK /\ RunnableOnceCompiled /\ [Next]_vars => RunnableOnceCompiled'
<1> SUFFICES ASSUME TypeOK, RunnableOnceCompiled, [Next]_vars
             PROVE  RunnableOnceCompiled'
  OBVIOUS
<1>1. CASE compiled' = compiled
  BY <1>1 DEF RunnableOnceCompiled
<1>2. ASSUME NEW o \in Options, Compile(o), compiled' # compiled
      PROVE  RunnableOnceCompiled'
  <2>1. b \in Builder /\ o \in Option
    BY BuilderAssumption DEF TypeOK
  <2>2. /\ Passes(b)
        /\ compiled' = {[runner |-> CompiledRunner(b, o), acyclic |-> IsAcyclic(b)]}
    BY <1>2 DEF Compile
  <2>3. \A c \in compiled' : c.runner = CompiledRunner(b, o)
    BY <2>2
  <2> QED BY <2>1, <2>2, <2>3, CompiledIsRunnable DEF RunnableOnceCompiled
<1>3. compiled' = compiled \/ \E o \in Options : Compile(o)
  BY DEF Next, vars, Called, AddNode, AddEdge, AddConditionalEdge, AddFanEdge,
         SetEntryPoint, SetTerminal, Compiled
<1> QED BY <1>1, <1>2, <1>3

(* Whatever chain of calls built it, a graph Compile returns is one that   *)
(* runLoop and nextFrontier can run: its entry and static edges are        *)
(* registered nodes and every node has exactly one way out                 *)
(* (compile.go:57-122, runner.go:191-239).                                 *)
THEOREM CompiledGraphsRun == Spec => []RunnableOnceCompiled
<1>1. Init => RunnableOnceCompiled
  BY DEF Init, RunnableOnceCompiled
<1> QED BY <1>1, TypeCorrect, RunnableStep, PTL DEF Spec

(* Compile's verdict is that of its checks, and the acyclic mark of its    *)
(* Runner that of isAcyclic.                                               *)
VerdictInv ==
  /\ \A c \in compiled : Passes(b) /\ (c.acyclic <=> IsAcyclic(b))
  /\ \A e \in rejected : e.kind = "mismatch" <=> Passes(b)

LEMMA VerdictStep == TypeOK /\ VerdictInv /\ [Next]_vars => VerdictInv'
<1> SUFFICES ASSUME TypeOK, VerdictInv, [Next]_vars PROVE VerdictInv'
  OBVIOUS
<1>1. CASE compiled' = {} /\ rejected' = {}
  BY <1>1 DEF VerdictInv
<1>2. CASE UNCHANGED <<b, compiled, rejected>>
  BY <1>2 DEF VerdictInv
<1>3. ASSUME NEW o \in Options, Compile(o)
      PROVE  VerdictInv'
  <2>1. b' = b /\ compiled \cup rejected = {}
    BY <1>3 DEF Compile
  <2>2. CASE Passes(b) /\ TypesMatch(o)
    <3>1. rejected' = {}
      BY <1>3, <2>1, <2>2 DEF Compile
    <3>2. compiled' = {[runner |-> CompiledRunner(b, o), acyclic |-> IsAcyclic(b)]}
      BY <1>3, <2>2 DEF Compile
    <3>3. \A c \in compiled' : c.acyclic = IsAcyclic(b)
      BY <3>2
    <3>4. Passes(b)' /\ IsAcyclic(b)' = IsAcyclic(b)
      BY <2>1, <2>2
    <3> QED BY <3>1, <3>3, <3>4 DEF VerdictInv
  <2>3. CASE Passes(b) /\ ~TypesMatch(o)
    <3>1. compiled' = {} /\ rejected' = {Error("mismatch", {})}
      BY <1>3, <2>1, <2>3 DEF Compile
    <3>2. Passes(b)'
      BY <2>1, <2>3
    <3> QED BY <3>1, <3>2 DEF VerdictInv, Error
  <2>4. CASE ~Passes(b)
    <3>1. compiled' = {} /\ \E e \in Rejections(b) : rejected' = {e}
      BY <1>3, <2>1, <2>4 DEF Compile
    <3>2. Rejections(b) \subseteq Errors
      BY RejectionsType DEF TypeOK
    <3>3. \A e \in rejected' : e.kind # "mismatch"
      BY <3>1, <3>2 DEF Errors
    <3>4. ~Passes(b)'
      BY <2>1, <2>4
    <3> QED BY <3>1, <3>3, <3>4 DEF VerdictInv
  <2> QED BY <2>2, <2>3, <2>4
<1>4. \/ compiled' = {} /\ rejected' = {}
      \/ UNCHANGED <<b, compiled, rejected>>
      \/ \E o \in Options : Compile(o)
  BY DEF Next, vars, Called, AddNode, AddEdge, AddConditionalEdge, AddFanEdge,
         SetEntryPoint, SetTerminal, Compiled
<1> QED BY <1>1, <1>2, <1>3, <1>4

(* Whatever chain of calls built it, Compile returns a Runner for exactly  *)
(* the valid graphs (compile.go:33-160).                                   *)
THEOREM AcceptsValid == Spec => []AcceptsExactlyValid
<1>1. Init => VerdictInv
  BY DEF Init, VerdictInv
<1>2. TypeOK /\ VerdictInv => AcceptsExactlyValid
  BY PassesIsValid DEF VerdictInv, AcceptsExactlyValid, TypeOK
<1> QED BY <1>1, <1>2, TypeCorrect, VerdictStep, PTL DEF Spec

(* Kahn's algorithm says acyclic of exactly the compiled graphs in which   *)
(* no node leads back to itself over static edges, whatever edges were     *)
(* recorded twice (compile.go:263-295).                                    *)
THEOREM AcyclicExact == Spec => []AcyclicIsExact
<1>1. Init => VerdictInv
  BY DEF Init, VerdictInv
<1>2. TypeOK /\ VerdictInv => AcyclicIsExact
  <2> SUFFICES ASSUME TypeOK, VerdictInv, NEW c \in compiled
               PROVE  c.acyclic <=> NoCycle
    BY DEF AcyclicIsExact, NoCycle
  <2>1. b \in Builder /\ Passes(b) /\ (c.acyclic <=> IsAcyclic(b))
    BY DEF TypeOK, VerdictInv
  <2>2. Wired(b)
    BY <2>1, PassesIsWired
  <2> QED BY <2>1, <2>2, KahnIsExact
<1> QED BY <1>1, <1>2, TypeCorrect, VerdictStep, PTL DEF Spec
=============================================================================
