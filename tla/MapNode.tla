-------------------------------- MODULE MapNode --------------------------------
(***************************************************************************)
(* A super-step of the Runner whose frontier consists of MapNodes          *)
(* (pkg/graph/mapnode.go inside runSuperStep): two levels of errgroups,    *)
(* each with a limit and a context of its own.  A node holds a slot of the *)
(* runner's limit while it waits for the goroutines of its payloads.       *)
(*                                                                         *)
(* Payloads are numbered, and the update of payload i is i.                *)
(***************************************************************************)
EXTENDS Naturals, FiniteSets, SequencesExt

CONSTANTS
  Node,         \* the frontier, all of it MapNodes
  MaxPayloads,  \* payloads of a node at most
  Setups        \* super-steps considered

(* parallel is WithMapParallel, 0 for no limit; a waiter is a payload      *)
(* whose inner call returns only once its context is done.                 *)
Setup ==
  [ payloads : [Node -> 0..MaxPayloads],
    parallel : [Node -> Nat],
    waiters : SUBSET (Node \X (1..MaxPayloads)),
    maxParallel : Nat \ {0},
    handler : BOOLEAN ]

ASSUME MapAssumption ==
  /\ IsFiniteSet(Node)
  /\ MaxPayloads \in Nat
  /\ Setups \subseteq Setup

VARIABLES
  setup,     \* the super-step, fixed
  phase,     \* of runSuperStep
  ctxDone,   \* the caller's context is cancelled
  pc,        \* where each node's goroutine is
  inner,     \* the goroutines of each node's payloads
  updates,   \* each node's slice of updates, 0 for the zero value
  mapErr,    \* the error each node's group keeps
  folded,    \* what combine was called with
  results,   \* the runner's result slots
  groupErr   \* the error the runner's group keeps

runnerVars == <<setup, phase, ctxDone>>
mapVars == <<pc, inner, updates, mapErr, folded>>
fanInVars == <<results, groupErr>>
vars == <<runnerVars, mapVars, fanInVars>>

ErrKind == {"none", "inner", "ctx", "payloads", "combine"}
NotFolded == <<0>>
Payloads(n) == 1..setup.payloads[n]

Init ==
  /\ setup \in Setups
  /\ phase = "running"
  /\ ctxDone = FALSE
  /\ pc = [n \in Node |-> "idle"]
  /\ inner = [n \in Node |-> [i \in Payloads(n) |-> "idle"]]
  /\ updates = [n \in Node |-> [i \in Payloads(n) |-> 0]]
  /\ mapErr = [n \in Node |-> "none"]
  /\ folded = [n \in Node |-> NotFolded]
  /\ results = [n \in Node |-> "empty"]
  /\ groupErr = "none"

-----------------------------------------------------------------------------
(* errgroup (external): Go blocks at the limit, the first error is kept    *)
(* and cancels the group's context, which descends from its parent's.      *)
Busy == { n \in Node : pc[n] \notin {"idle", "returned"} }
Active(n) == { i \in Payloads(n) : inner[n][i] = "running" }

SlotFree == Cardinality(Busy) < setup.maxParallel

RunnersSlotFree(n) ==
  Cardinality(Busy) + Cardinality(UNION { {m} \X Active(m) : m \in Node })
    < setup.maxParallel
InnerSlotFree(n) ==
  setup.parallel[n] = 0 \/ Cardinality(Active(n)) < setup.parallel[n]

LastError(old, new) == new
FirstError(old, new) == IF old = "none" THEN new ELSE old

GroupCtxDone == ctxDone \/ groupErr # "none"
MapCtxDoneOnOwn(n) == mapErr[n] # "none"
MapCtxDone(n) == GroupCtxDone \/ mapErr[n] # "none"

-----------------------------------------------------------------------------
(* The runner's goroutine launches the frontier.                           *)
Launch(n) ==
  /\ phase = "running"
  /\ pc[n] = "idle"
  /\ SlotFree
  /\ pc' = [pc EXCEPT ![n] = "entered"]
  /\ UNCHANGED <<runnerVars, inner, updates, mapErr, folded, fanInVars>>

(* payloads(state): with none there is nothing to launch.                  *)
Enter(n) ==
  /\ pc[n] = "entered"
  /\ pc' = [pc EXCEPT ![n] = IF Payloads(n) = {} THEN "combine" ELSE "launch"]
  /\ UNCHANGED <<runnerVars, inner, updates, mapErr, folded, fanInVars>>

(* The loop over the payloads: eg.Go in their order, blocking at the limit *)
(* and going on after a failure.                                           *)
LaunchInner(n) ==
  /\ pc[n] = "launch"
  /\ InnerSlotFree(n)
  /\ \E i \in Payloads(n) :
       /\ inner[n][i] = "idle"
       /\ \A j \in 1..(i - 1) : inner[n][j] # "idle"
       /\ inner' = [inner EXCEPT ![n][i] = "running"]
       /\ pc' = [pc EXCEPT ![n] =
                   IF i = setup.payloads[n] THEN "wait" ELSE "launch"]
  /\ UNCHANGED <<runnerVars, updates, mapErr, folded, fanInVars>>

StoredAsFinished(slice, i) ==
  Append(SelectSeq(slice, LAMBDA u : u # 0), i)
Stored(slice, i) == [slice EXCEPT ![i] = i]

InnerSucceeds(n, i) ==
  /\ i \in Active(n)
  /\ <<n, i>> \notin setup.waiters
  /\ updates' = [updates EXCEPT ![n] = Stored(@, i)]
  /\ inner' = [inner EXCEPT ![n][i] = "done"]
  /\ UNCHANGED <<runnerVars, pc, mapErr, folded, fanInVars>>

InnerFails(n, i) ==
  /\ i \in Active(n)
  /\ \E kind \in {"inner", "ctx"} :
       /\ kind = "inner" => <<n, i>> \notin setup.waiters
       /\ kind = "ctx" => MapCtxDone(n)
       /\ mapErr' = [mapErr EXCEPT ![n] = FirstError(@, kind)]
  /\ inner' = [inner EXCEPT ![n][i] = "done"]
  /\ UNCHANGED <<runnerVars, pc, updates, folded, fanInVars>>

(* A payload's goroutine has no recover, and the node's is another one:    *)
(* the program ends.                                                       *)
InnerPanics(n, i) ==
  /\ i \in Active(n)
  /\ <<n, i>> \notin setup.waiters
  /\ phase' = "crashed"
  /\ UNCHANGED <<setup, ctxDone, mapVars, fanInVars>>

-----------------------------------------------------------------------------
(* Execute returns to the runner's goroutine for the node, which leaves an *)
(* update, or the handler's business, in the node's slot, or else fails    *)
(* the group.                                                              *)
Return(n, e) ==
  /\ pc' = [pc EXCEPT ![n] = "returned"]
  /\ IF e = "none" \/ setup.handler
     THEN /\ results' = [results EXCEPT ![n] =
                           IF e = "none" THEN "update" ELSE "error"]
          /\ UNCHANGED groupErr
     ELSE /\ groupErr' = FirstError(groupErr, e)
          /\ UNCHANGED results

(* eg.Wait of the node's group.                                            *)
Waited(n, done) ==
  /\ pc[n] = "wait"
  /\ done
  /\ IF mapErr[n] = "none"
     THEN /\ pc' = [pc EXCEPT ![n] = "combine"]
          /\ UNCHANGED fanInVars
     ELSE Return(n, mapErr[n])
  /\ UNCHANGED <<runnerVars, inner, updates, mapErr, folded>>

WaitForFirstError(n) == Waited(n, Active(n) = {} \/ mapErr[n] # "none")
Wait(n) == Waited(n, Active(n) = {})

Combine(n) ==
  /\ pc[n] = "combine"
  /\ folded' = [folded EXCEPT ![n] = updates[n]]
  /\ \E e \in {"none", "combine"} : Return(n, e)
  /\ UNCHANGED <<runnerVars, inner, updates, mapErr>>

(* payloads panics: the runner's guard contains it.                        *)
EnterFails(n) ==
  /\ pc[n] = "entered"
  /\ Return(n, "payloads")
  /\ UNCHANGED <<runnerVars, inner, updates, mapErr, folded>>

(* eg.Wait of the runner's group.                                          *)
WaitForNodes ==
  /\ phase = "running"
  /\ \A n \in Node : pc[n] = "returned"
  /\ phase' = "over"
  /\ UNCHANGED <<setup, ctxDone, mapVars, fanInVars>>

(* The caller cancels its context, or its deadline passes.                 *)
Cancel ==
  /\ phase = "running"
  /\ ~ctxDone
  /\ ctxDone' = TRUE
  /\ UNCHANGED <<setup, phase, mapVars, fanInVars>>

Stopped == phase \in {"over", "crashed"} /\ UNCHANGED vars

NodeSteps(n) ==
  /\ phase = "running"
  /\ \/ Launch(n) \/ Enter(n) \/ EnterFails(n) \/ LaunchInner(n)
     \/ Wait(n) \/ Combine(n)

InnerReturns(n, i) ==
  /\ phase = "running"
  /\ InnerSucceeds(n, i) \/ InnerFails(n, i)

Next ==
  \/ \E n \in Node :
       \/ NodeSteps(n)
       \/ \E i \in Payloads(n) :
            \/ InnerReturns(n, i)
            \/ phase = "running" /\ InnerPanics(n, i)
  \/ WaitForNodes
  \/ Cancel
  \/ Stopped

(* Every runnable goroutine runs.  An inner call returns, a waiter's only  *)
(* when its context is done; nothing makes the caller cancel.              *)
Fairness ==
  /\ WF_vars(WaitForNodes)
  /\ \A n \in Node :
       /\ WF_vars(NodeSteps(n))
       /\ \A i \in 1..MaxPayloads :
            WF_vars(i \in Payloads(n) /\ InnerReturns(n, i))

Spec == Init /\ [][Next]_vars /\ Fairness

-----------------------------------------------------------------------------
(* Properties.                                                             *)

(* Every variable keeps its type; a node's slice keeps its length.         *)
TypeOK ==
  /\ setup \in Setups
  /\ phase \in {"running", "over", "crashed"}
  /\ ctxDone \in BOOLEAN
  /\ pc \in [Node -> {"idle", "entered", "launch", "wait", "combine",
                      "returned"}]
  /\ \A n \in Node :
       /\ inner[n] \in [Payloads(n) -> {"idle", "running", "done"}]
       /\ updates[n] \in [Payloads(n) -> 0..MaxPayloads]
       /\ folded[n] \in {NotFolded, updates[n]}
  /\ mapErr \in [Node -> ErrKind] /\ groupErr \in ErrKind
  /\ results \in [Node -> {"empty", "update", "error"}]

(* combine is called with the update of every payload, in the payloads'    *)
(* order whatever order they finished in, and with nothing when there are  *)
(* none; and a MapNode that returned, however it did, leaves no goroutine  *)
(* behind (mapnode.go:51-69).                                              *)
WholeFold ==
  \A n \in Node :
    /\ folded[n] # NotFolded => folded[n] = [i \in Payloads(n) |-> i]
    /\ results[n] = "update" => folded[n] # NotFolded
    /\ pc[n] = "returned" => Active(n) = {}

(* The error of the super-step is a context error only if the caller's     *)
(* context is done, although a failing payload cancels its siblings and    *)
(* its node's failure every other node's payloads: through both groups the *)
(* first error is the one reported.                                        *)
RootCause ==
  /\ groupErr = "ctx" => ctxDone
  /\ \A n \in Node : mapErr[n] = "ctx" => GroupCtxDone

(* No deadlock between the two limits, equal or not, which is what         *)
(* WithMapParallel's comment is about (mapnode.go:16-21): if every inner   *)
(* call returns by itself, or the caller cancels, or a node failed the     *)
(* super-step, the super-step ends; and one failing payload is enough to   *)
(* end its own node.                                                       *)
SuperStepEnds ==
  /\ (setup.waiters = {} \/ GroupCtxDone) ~> phase # "running"
  /\ \A n \in Node :
       mapErr[n] # "none" ~> (pc[n] = "returned" \/ phase = "crashed")
=============================================================================
