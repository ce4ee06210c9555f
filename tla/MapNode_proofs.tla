---------------------------- MODULE MapNode_proofs ----------------------------
(***************************************************************************)
(* Proofs about MapNode: its type invariant, what combine is called with,  *)
(* and which error the two groups report.                                  *)
(***************************************************************************)
EXTENDS MapNode, TLAPS

-----------------------------------------------------------------------------
(* The inductive invariant.                                                *)

Functions ==
  DOMAIN inner = Node /\ DOMAIN updates = Node /\ DOMAIN folded = Node

(* How far the goroutines of a node's payloads are when its own is at each *)
(* of its places.                                                          *)
Progress(n) ==
  /\ pc[n] \in {"idle", "entered"} => \A i \in Payloads(n) : inner[n][i] = "idle"
  /\ pc[n] = "launch" =>
       \E k \in Payloads(n) : \A i \in Payloads(n) :
         inner[n][i] = "idle" <=> i >= k
  /\ pc[n] \in {"wait", "combine"} =>
       \A i \in Payloads(n) : inner[n][i] # "idle"
  /\ pc[n] \in {"combine", "returned"} =>
       \A i \in Payloads(n) : inner[n][i] # "running"

(* A payload that is done left its update, or an error in the group.       *)
Stores(n) ==
  /\ pc[n] \in {"idle", "entered", "combine"} => mapErr[n] = "none"
  /\ \A i \in Payloads(n) :
       inner[n][i] = "done" => mapErr[n] # "none" \/ updates[n][i] = i
  /\ folded[n] # NotFolded => pc[n] = "returned"

ProgressInv == \A n \in Node : Progress(n) /\ Stores(n)

IInv == TypeOK /\ Functions /\ ProgressInv /\ WholeFold /\ RootCause

-----------------------------------------------------------------------------
(* Facts about the constants and the operators.                            *)

LEMMA SetupType ==
  ASSUME TypeOK, NEW n \in Node
  PROVE  /\ setup.payloads[n] \in Nat
         /\ Payloads(n) \subseteq 1..MaxPayloads
         /\ Payloads(n) \subseteq Nat
BY MapAssumption DEF TypeOK, Setup, Payloads

(* The updates of no payload at all are still not the mark of a node that  *)
(* has not called combine.                                                 *)
LEMMA FoldsShow ==
  ASSUME NEW k \in Nat
  PROVE  [i \in 1..k |-> i] # NotFolded
<1> SUFFICES ASSUME [i \in 1..k |-> i] = NotFolded PROVE FALSE
  OBVIOUS
<1>1. DOMAIN NotFolded = 1..1 /\ NotFolded[1] = 0
  BY DEF NotFolded
<1>2. 1 \in 1..k
  BY <1>1
<1> QED BY <1>1, <1>2

-----------------------------------------------------------------------------
LEMMA Initially == Init => IInv
<1> SUFFICES ASSUME Init PROVE IInv
  OBVIOUS
<1> USE DEF Init
<1>1. TypeOK
  <2>1. 0 \in 0..MaxPayloads
    BY MapAssumption
  <2> QED BY <2>1 DEF TypeOK, Payloads, ErrKind
<1>2. Functions /\ ProgressInv
  BY DEF Functions, ProgressInv, Progress, Stores
<1>3. WholeFold /\ RootCause
  BY DEF WholeFold, RootCause, Active
<1> QED BY <1>1, <1>2, <1>3 DEF IInv

-----------------------------------------------------------------------------
(* Every step keeps the types.                                             *)
LEMMA TypeStep ==
  ASSUME IInv, [Next]_vars
  PROVE  TypeOK' /\ Functions'
<1> USE DEF IInv, ProgressInv, Functions
<1>0. TypeOK /\ \A n \in Node : Payloads(n) \subseteq 1..MaxPayloads
  BY SetupType
<1>1. ASSUME NEW n \in Node, Launch(n) \/ Enter(n) PROVE TypeOK' /\ Functions'
  BY <1>0, <1>1 DEF Launch, Enter, TypeOK, Payloads, runnerVars, fanInVars
<1>2. ASSUME NEW n \in Node, LaunchInner(n) PROVE TypeOK' /\ Functions'
  BY <1>0, <1>2 DEF LaunchInner, TypeOK, Payloads, runnerVars, fanInVars
<1>3. ASSUME NEW n \in Node, NEW i \in Payloads(n), InnerSucceeds(n, i)
      PROVE  TypeOK' /\ Functions'
  BY <1>0, <1>3 DEF InnerSucceeds, Stored, Active, TypeOK, Payloads,
     runnerVars, fanInVars, Progress, Stores
<1>4. ASSUME NEW n \in Node, NEW i \in Payloads(n), InnerFails(n, i)
      PROVE  TypeOK' /\ Functions'
  BY <1>0, <1>4 DEF InnerFails, FirstError, TypeOK, Payloads, ErrKind,
     runnerVars, fanInVars
<1>5. ASSUME NEW n \in Node, Wait(n) PROVE TypeOK' /\ Functions'
  BY <1>0, <1>5 DEF Wait, Waited, Return, FirstError, TypeOK, Payloads, ErrKind,
     runnerVars, fanInVars
<1>6. ASSUME NEW n \in Node, Combine(n) PROVE TypeOK' /\ Functions'
  BY <1>0, <1>6 DEF Combine, Return, FirstError, TypeOK, Payloads, ErrKind,
     runnerVars
<1>7. ASSUME NEW n \in Node, EnterFails(n) PROVE TypeOK' /\ Functions'
  BY <1>0, <1>7 DEF EnterFails, Return, FirstError, TypeOK, Payloads, ErrKind,
     runnerVars
<1>8. CASE \/ WaitForNodes \/ Cancel \/ Stopped \/ UNCHANGED vars
           \/ \E n \in Node : \E i \in Payloads(n) : InnerPanics(n, i)
  BY <1>0, <1>8 DEF WaitForNodes, Cancel, Stopped, InnerPanics, vars, TypeOK,
     Payloads, runnerVars, mapVars, fanInVars
<1> QED
  BY <1>1, <1>2, <1>3, <1>4, <1>5, <1>6, <1>7, <1>8
     DEF Next, NodeSteps, InnerReturns

-----------------------------------------------------------------------------
(* Every step keeps where the payloads are and what they have stored.      *)
LEMMA ProgressStep ==
  ASSUME IInv, [Next]_vars
  PROVE  ProgressInv'
<1> USE DEF IInv, ProgressInv, Functions
<1>0. /\ TypeOK
      /\ \A n \in Node : setup.payloads[n] \in Nat /\ Payloads(n) = 1..setup.payloads[n]
      /\ setup' = setup
  <2>1. setup' = setup
    BY DEF Next, NodeSteps, InnerReturns, Launch, Enter, EnterFails, LaunchInner,
       Wait, Waited, Combine, InnerSucceeds, InnerFails, InnerPanics, WaitForNodes,
       Cancel, Stopped, vars, runnerVars
  <2> QED BY <2>1, SetupType DEF Payloads
<1> SUFFICES ASSUME NEW m \in Node PROVE Progress(m)' /\ Stores(m)'
  OBVIOUS
<1> HIDE DEF ProgressInv
<1>9. Progress(m) /\ Stores(m)
  BY DEF ProgressInv
<1>10. Payloads(m)' = Payloads(m)
  BY <1>0 DEF Payloads
<1>11. ASSUME pc'[m] = pc[m], inner'[m] = inner[m], updates'[m] = updates[m],
             mapErr'[m] = mapErr[m], folded'[m] = folded[m]
      PROVE  Progress(m)' /\ Stores(m)'
  BY <1>9, <1>10, <1>11 DEF Progress, Stores
<1>1. ASSUME NEW n \in Node, Launch(n) \/ Enter(n) PROVE Progress(m)' /\ Stores(m)'
  <2>1. /\ UNCHANGED <<inner, updates, mapErr, folded>>
        /\ m # n => pc'[m] = pc[m]
    BY <1>0, <1>1 DEF Launch, Enter, TypeOK
  <2>2. CASE m = n /\ Launch(n)
    BY <1>0, <1>9, <1>10, <2>1, <2>2 DEF Launch, TypeOK, Progress, Stores
  <2>3. CASE m = n /\ Enter(n)
    <3>1. pc[m] = "entered" /\ pc'[m] = IF Payloads(m) = {} THEN "combine" ELSE "launch"
      BY <1>0, <2>3 DEF Enter, TypeOK
    <3>2. Payloads(m) # {} => 1 \in Payloads(m) /\ \A i \in Payloads(m) : i >= 1
      BY <1>0
    <3>3. Stores(m)'
      BY <1>9, <1>10, <2>1, <3>1, <3>2 DEF Progress, Stores
    <3>4. \A i \in Payloads(m) : inner[m][i] = "idle"
      BY <1>9, <3>1 DEF Progress
    <3>5. CASE Payloads(m) = {}
      BY <1>10, <2>1, <3>1, <3>3, <3>5 DEF Progress
    <3>6. CASE Payloads(m) # {}
      BY <1>10, <2>1, <3>1, <3>2, <3>3, <3>4, <3>6 DEF Progress
    <3> QED BY <3>5, <3>6
  <2> QED BY <1>1, <1>11, <2>1, <2>2, <2>3
<1>2. ASSUME NEW n \in Node, LaunchInner(n) PROVE Progress(m)' /\ Stores(m)'
  <2>1. /\ UNCHANGED <<updates, mapErr, folded>>
        /\ m # n => pc'[m] = pc[m] /\ inner'[m] = inner[m]
    BY <1>0, <1>2 DEF LaunchInner, TypeOK
  <2>2. CASE m = n
    <3>1. PICK i \in Payloads(m) :
            /\ inner[m][i] = "idle"
            /\ \A j \in 1..(i - 1) : inner[m][j] # "idle"
            /\ inner' = [inner EXCEPT ![m][i] = "running"]
            /\ pc' = [pc EXCEPT ![m] =
                        IF i = setup.payloads[m] THEN "wait" ELSE "launch"]
      BY <1>2, <2>2 DEF LaunchInner
    <3>2. PICK k \in Payloads(m) :
            \A j \in Payloads(m) : inner[m][j] = "idle" <=> j >= k
      BY <1>2, <1>9, <2>2 DEF LaunchInner, Progress
    <3>3. i = k
      BY <1>0, <3>1, <3>2
    <3>4. /\ pc[m] = "launch"
          /\ pc'[m] = IF i = setup.payloads[m] THEN "wait" ELSE "launch"
          /\ inner'[m] = [inner[m] EXCEPT ![i] = "running"]
          /\ DOMAIN inner[m] = Payloads(m)
      BY <1>0, <1>2, <2>2, <3>1 DEF LaunchInner, TypeOK
    <3>5. CASE i = setup.payloads[m]
      BY <1>0, <1>9, <1>10, <2>1, <3>2, <3>3, <3>4, <3>5 DEF Progress, Stores
    <3>6. CASE i # setup.payloads[m]
      <4>1. /\ i + 1 \in Payloads(m)
            /\ \A j \in Payloads(m) : inner'[m][j] = "idle" <=> j >= i + 1
        BY <1>0, <3>2, <3>3, <3>4, <3>6
      <4>2. \A j \in Payloads(m) : inner'[m][j] = "done" => inner[m][j] = "done"
        BY <3>4
      <4> QED BY <1>9, <1>10, <2>1, <3>4, <3>6, <4>1, <4>2 DEF Progress, Stores
    <3> QED BY <3>5, <3>6
  <2> QED BY <1>11, <2>1, <2>2
<1>3. ASSUME NEW n \in Node, NEW i \in Payloads(n), InnerSucceeds(n, i)
      PROVE  Progress(m)' /\ Stores(m)'
  <2>1. /\ UNCHANGED <<pc, mapErr, folded>>
        /\ m # n => inner'[m] = inner[m] /\ updates'[m] = updates[m]
    BY <1>3 DEF InnerSucceeds
  <2>2. CASE m = n
    <3>1. /\ inner[m][i] = "running"
          /\ inner'[m] = [inner[m] EXCEPT ![i] = "done"]
          /\ updates'[m] = [updates[m] EXCEPT ![i] = i]
          /\ DOMAIN inner[m] = Payloads(m) /\ DOMAIN updates[m] = Payloads(m)
      BY <1>0, <1>3, <2>2 DEF InnerSucceeds, Active, Stored, TypeOK
    <3>2. \A j \in Payloads(m) : inner'[m][j] = "idle" <=> inner[m][j] = "idle"
      BY <3>1
    <3>3. \A j \in Payloads(m) :
            inner'[m][j] = "done" => mapErr[m] # "none" \/ updates'[m][j] = j
      BY <1>9, <3>1 DEF Stores
    <3>4. pc[m] \notin {"combine", "returned"}
      BY <1>9, <2>2, <3>1 DEF Progress
    <3> QED BY <1>9, <1>10, <2>1, <3>2, <3>3, <3>4 DEF Progress, Stores
  <2> QED BY <1>11, <2>1, <2>2
<1>4. ASSUME NEW n \in Node, NEW i \in Payloads(n), InnerFails(n, i)
      PROVE  Progress(m)' /\ Stores(m)'
  <2>1. /\ UNCHANGED <<pc, updates, folded>>
        /\ m # n => inner'[m] = inner[m] /\ mapErr'[m] = mapErr[m]
    BY <1>0, <1>4 DEF InnerFails, TypeOK
  <2>2. CASE m = n
    <3>1. /\ inner[m][i] = "running"
          /\ inner'[m] = [inner[m] EXCEPT ![i] = "done"]
          /\ DOMAIN inner[m] = Payloads(m)
          /\ mapErr'[m] # "none"
      BY <1>0, <1>4, <2>2 DEF InnerFails, FirstError, Active, TypeOK
    <3>2. \A j \in Payloads(m) : inner'[m][j] = "idle" <=> inner[m][j] = "idle"
      BY <3>1
    <3>3. pc[m] \notin {"idle", "entered", "combine", "returned"}
      BY <1>9, <2>2, <3>1 DEF Progress
    <3> QED BY <1>9, <1>10, <2>1, <3>1, <3>2, <3>3 DEF Progress, Stores
  <2> QED BY <1>11, <2>1, <2>2
<1>5. ASSUME NEW n \in Node, Wait(n) PROVE Progress(m)' /\ Stores(m)'
  <2>1. /\ UNCHANGED <<inner, updates, mapErr, folded>>
        /\ m # n => pc'[m] = pc[m]
        /\ m = n => /\ pc[m] = "wait" /\ Active(m) = {}
                    /\ pc'[m] = IF mapErr[m] = "none" THEN "combine" ELSE "returned"
    BY <1>0, <1>5 DEF Wait, Waited, Return, TypeOK
  <2> QED BY <1>9, <1>10, <1>11, <2>1 DEF Progress, Stores, Active
<1>6. ASSUME NEW n \in Node, Combine(n) PROVE Progress(m)' /\ Stores(m)'
  <2>1. /\ UNCHANGED <<inner, updates, mapErr>>
        /\ m # n => pc'[m] = pc[m] /\ folded'[m] = folded[m]
        /\ m = n => pc[m] = "combine" /\ pc'[m] = "returned"
    BY <1>0, <1>6 DEF Combine, Return, TypeOK
  <2> QED BY <1>9, <1>10, <1>11, <2>1 DEF Progress, Stores
<1>7. ASSUME NEW n \in Node, EnterFails(n) PROVE Progress(m)' /\ Stores(m)'
  <2>1. /\ UNCHANGED <<inner, updates, mapErr, folded>>
        /\ m # n => pc'[m] = pc[m]
        /\ m = n => pc[m] = "entered" /\ pc'[m] = "returned"
    BY <1>0, <1>7 DEF EnterFails, Return, TypeOK
  <2> QED BY <1>9, <1>10, <1>11, <2>1 DEF Progress, Stores
<1>8. CASE \/ WaitForNodes \/ Cancel \/ Stopped \/ UNCHANGED vars
           \/ \E n \in Node : \E i \in Payloads(n) : InnerPanics(n, i)
  BY <1>11, <1>8 DEF WaitForNodes, Cancel, Stopped, InnerPanics, vars, mapVars
<1> QED
  BY <1>1, <1>2, <1>3, <1>4, <1>5, <1>6, <1>7, <1>8
     DEF Next, NodeSteps, InnerReturns

(* combine gets the update of every payload at its place.                  *)
LEMMA FoldStep ==
  ASSUME IInv, [Next]_vars, ProgressInv'
  PROVE  WholeFold'
<1> USE DEF IInv, ProgressInv, Functions
<1>0. /\ TypeOK /\ WholeFold
      /\ \A n \in Node : setup.payloads[n] \in Nat
      /\ setup' = setup
  <2>1. setup' = setup
    BY DEF Next, NodeSteps, InnerReturns, Launch, Enter, EnterFails, LaunchInner,
       Wait, Waited, Combine, InnerSucceeds, InnerFails, InnerPanics, WaitForNodes,
       Cancel, Stopped, vars, runnerVars
  <2> QED BY <2>1, SetupType
<1> SUFFICES ASSUME NEW m \in Node
             PROVE  /\ folded'[m] # NotFolded => folded'[m] = [i \in Payloads(m) |-> i]
                    /\ results'[m] = "update" => folded'[m] # NotFolded
  BY <1>0 DEF WholeFold, Progress, Active, Payloads
<1>1. CASE UNCHANGED <<folded, results>>
  BY <1>0, <1>1 DEF WholeFold
<1>2. ASSUME NEW n \in Node, Combine(n)
      PROVE  /\ folded'[m] # NotFolded => folded'[m] = [i \in Payloads(m) |-> i]
             /\ results'[m] = "update" => folded'[m] # NotFolded
  <2>1. updates[n] = [i \in Payloads(n) |-> i]
    <3>1. \A i \in Payloads(n) : inner[n][i] = "done"
      BY <1>0, <1>2 DEF Combine, Progress, TypeOK
    <3>2. \A i \in Payloads(n) : updates[n][i] = i
      BY <1>2, <3>1 DEF Combine, Stores
    <3> QED BY <1>0, <3>2 DEF TypeOK
  <2>2. updates[n] # NotFolded
    BY <1>0, <2>1, FoldsShow DEF Payloads
  <2>3. folded' = [folded EXCEPT ![n] = updates[n]]
    BY <1>2 DEF Combine
  <2>4. m # n => results'[m] = results[m]
    BY <1>0, <1>2 DEF Combine, Return, TypeOK
  <2>5. CASE m = n
    BY <2>1, <2>2, <2>3, <2>5
  <2>6. CASE m # n
    BY <1>0, <2>3, <2>4, <2>6 DEF WholeFold
  <2> QED BY <2>5, <2>6
<1>3. ASSUME NEW n \in Node, Wait(n) \/ EnterFails(n)
      PROVE  /\ folded'[m] # NotFolded => folded'[m] = [i \in Payloads(m) |-> i]
             /\ results'[m] = "update" => folded'[m] # NotFolded
  <2>1. UNCHANGED folded /\ (results'[m] = "update" => results[m] = "update")
    BY <1>0, <1>3 DEF Wait, Waited, EnterFails, Return, TypeOK, fanInVars
  <2> QED BY <1>0, <2>1 DEF WholeFold
<1> QED
  BY <1>1, <1>2, <1>3
     DEF Next, NodeSteps, InnerReturns, Launch, Enter, LaunchInner, InnerSucceeds,
         InnerFails, InnerPanics, WaitForNodes, Cancel, Stopped, vars, mapVars,
         fanInVars

(* The first error of a group is a context error only if its parent's      *)
(* context is done.                                                        *)
LEMMA CauseStep ==
  ASSUME IInv, [Next]_vars
  PROVE  RootCause'
<1> USE DEF IInv, RootCause, GroupCtxDone
<1>0. TypeOK
  OBVIOUS
<1>1. ASSUME NEW n \in Node, NEW i \in Payloads(n), InnerFails(n, i)
      PROVE  RootCause'
  BY <1>0, <1>1 DEF InnerFails, FirstError, MapCtxDone, TypeOK, runnerVars,
     fanInVars
<1>2. ASSUME NEW n \in Node, Wait(n) PROVE RootCause'
  BY <1>0, <1>2 DEF Wait, Waited, Return, FirstError, TypeOK, runnerVars, fanInVars
<1>3. ASSUME NEW n \in Node, Combine(n) \/ EnterFails(n) PROVE RootCause'
  BY <1>0, <1>3 DEF Combine, EnterFails, Return, FirstError, TypeOK, runnerVars
<1>4. CASE UNCHANGED <<groupErr, mapErr>> /\ (ctxDone => ctxDone')
  BY <1>4
<1> QED
  BY <1>1, <1>2, <1>3, <1>4
     DEF Next, NodeSteps, InnerReturns, Launch, Enter, LaunchInner, InnerSucceeds,
         InnerPanics, WaitForNodes, Cancel, Stopped, vars, runnerVars, mapVars,
         fanInVars

-----------------------------------------------------------------------------
LEMMA Inductive == Spec => []IInv
<1>1. IInv /\ [Next]_vars => IInv'
  BY TypeStep, ProgressStep, FoldStep, CauseStep DEF IInv
<1> QED BY Initially, <1>1, PTL DEF Spec

(* Every variable keeps its type, for any frontier, payloads and limits.   *)
THEOREM TypeCorrect == Spec => []TypeOK
BY Inductive, PTL DEF IInv

(* combine is called with the update of every payload at its place, and no *)
(* goroutine outlives its node (mapnode.go:51-69).                         *)
THEOREM FoldsWhole == Spec => []WholeFold
BY Inductive, PTL DEF IInv

(* Through both groups, a context error is reported only if the caller's   *)
(* context is done (mapnode.go:52-68, runner.go:109-144).                  *)
THEOREM ReportsRootCause == Spec => []RootCause
BY Inductive, PTL DEF IInv
=============================================================================
